---- MODULE Spec2Model ----
(***************************************************************************)
(* ParkSense: the trail graph (buildTrailGraph, findNearestNode, dijkstra) *)
(* of parksense-mobile-complete.js and the route scorer (RouteScorer) of   *)
(* route-scoring.js.                                                       *)
(*                                                                         *)
(* Numbers.  Geographic points lie on one meridian, in steps of 0.001      *)
(* degree of latitude; on a meridian the haversine distance is exactly     *)
(* R * |dlat|, about 111 m for each step.  Scores are exact fixed-point    *)
(* numbers in units of 1/ONE; weights and rounded scores are in            *)
(* hundredths.  Floating-point rounding error is not modelled.             *)
(***************************************************************************)
EXTENDS Integers, Sequences, FiniteSets, TLC

VARIABLES
  trailGraph,     \* the global trailGraph: None (null) or Some(graph)
  windowTrailFeatures, \* window.trailFeatures, the features of the graph
  pc,             \* position of the running call: "idle" or "loop"
  dj,             \* locals of the running dijkstra call
  ret,            \* the last call and the value it returned
  inRoute,        \* calculateScore: the route argument
  inPreferences,  \* calculateScore: the preferences argument
  inContext,      \* calculateScore: the context argument
  scoreLocals,    \* calculateScore: the five sub-scores it computed
  scoreResult,    \* calculateScore: the ScoreResult it returned
  defaultWeights, \* RouteScorer.defaultWeights
  calls,          \* the calls made on the scorer so far, oldest first
  pickMode,       \* the global pickMode: None (null), Some("start") or Some("end")
  startLatLng,    \* the picked start point: None or Some([lat, lng])
  endLatLng,      \* the picked end point: None or Some([lat, lng])
  startMarker,    \* the marker of the start point: None or Some(layer)
  endMarker,      \* the marker of the end point: None or Some(layer)
  routeLine,      \* the polyline of the planned route: None or Some(layer)
  mapLayers,      \* the markers and polylines that are on the map
  timers,         \* the pending setTimeout callbacks, in scheduling order
  routeDrawer,    \* the route drawer: whether it is open, and its content
  routeInfo,      \* the route info display: None (hidden) or Some(text)
  fetching        \* the trail data of a loadLayer that awaits its response

graphVars == <<trailGraph, windowTrailFeatures, pc, dj, ret>>
scoreVars == <<inRoute, inPreferences, inContext, scoreLocals, scoreResult,
               defaultWeights, calls>>
vars == <<trailGraph, windowTrailFeatures, pc, dj, ret,
          inRoute, inPreferences, inContext, scoreLocals, scoreResult,
          defaultWeights, calls,
          pickMode, startLatLng, endLatLng, startMarker, endMarker, routeLine,
          mapLayers, timers, routeDrawer, routeInfo, fetching>>
uiVars == <<pickMode, startLatLng, endLatLng, startMarker, endMarker, routeLine,
            mapLayers, timers, routeDrawer, routeInfo, fetching>>

(***************************************************************************)
(* JavaScript values                                                       *)
(***************************************************************************)
\* null / undefined, and a present value
None == <<>>
Some(x) == <<x>>

\* obj.field, with undefined for a missing property
Has(obj, field) == field \in DOMAIN obj

Abs(x) == IF x < 0 THEN 0 - x ELSE x
Min(a, b) == IF a < b THEN a ELSE b
Max(a, b) == IF a > b THEN a ELSE b

RECURSIVE SumSeq(_)
SumSeq(s) == IF s = <<>> THEN 0 ELSE Head(s) + SumSeq(Tail(s))

(***************************************************************************)
(* Bounds and inputs of the trail graph                                    *)
(***************************************************************************)
\* total number of coordinates (and skipped features) of a trail dataset
MaxNodes == 4

\* latitudes of trail coordinates and of picked points, in steps
Lats == {0, 2}
QueryLats == {0, 1, 2, 3}
\* metres for each step of latitude: 6371000 * PI / 180 / 1000
MetersPerStep == 111

Infinity == 999999999

\* GeoJSON positions are [lng, lat]
Coords == {<<0, lat>> : lat \in Lats}

LineString(coords) ==
  [geometry |-> [type |-> "LineString", coordinates |-> coords]]

PolygonFeature ==
  [geometry |-> [type |-> "Polygon",
                 coordinates |-> << << <<0, 0>> >> >>]]

RECURSIVE CoordSeqs(_)
CoordSeqs(n) ==
  IF n = 0 THEN {<<>>}
  ELSE {<<c>> \o s : c \in Coords, s \in CoordSeqs(n - 1)}

\* The features filterGeoJSONFeatures lets through: a LineString has a first
\* coordinate (inside the London bounds), every other geometry is kept as is.
RECURSIVE TrailFeatures(_)
TrailFeatures(budget) ==
  {<<>>}
  \cup {<<PolygonFeature>> \o rest :
          rest \in IF budget >= 1 THEN TrailFeatures(budget - 1) ELSE {}}
  \cup UNION {{<<LineString(cs)>> \o rest :
                 cs \in CoordSeqs(k), rest \in TrailFeatures(budget - k)} :
              k \in 1..budget}

(***************************************************************************)
(* haversine, buildTrailGraph                                              *)
(***************************************************************************)
\* haversine(p1, p2) for two [lat, lng] points of one meridian
haversine(p1, p2) == MetersPerStep * Abs(p1[1] - p2[1])

\* A Map in insertion order: a sequence of entries with distinct keys.
MapHas(m, k) == \E i \in 1..Len(m) : m[i].id = k
MapGet(m, k) == m[CHOOSE i \in 1..Len(m) : m[i].id = k]
MapSet(m, k, v) ==
  IF MapHas(m, k)
  THEN [i \in 1..Len(m) |-> IF m[i].id = k THEN v ELSE m[i]]
  ELSE Append(m, v)
MapKeys(m) == [i \in 1..Len(m) |-> m[i].id]

RECURSIVE MapSetAll(_, _)
MapSetAll(m, entries) ==
  IF entries = <<>> THEN m
  ELSE MapSetAll(MapSet(m, Head(entries).id, Head(entries)), Tail(entries))

\* the adjacency one line gives its i-th node (lines 263-269): the node
\* before it and the node after it, each at their haversine distance
LineNeighbours(n, i) == {k \in {i - 1, i + 1} : k >= 1 /\ k <= n}

LineAdjForwardOnly(ids, latlngs, i) ==
  [id \in {ids[k] : k \in LineNeighbours(Len(ids), i) \cap {i + 1}} |->
     haversine(latlngs[i], latlngs[i + 1])]

\* as LineAdj, with the first node of a line tied to the node made before it
LineAdjJoined(ids, latlngs, i) ==
  [id \in {ids[k] : k \in LineNeighbours(Len(ids), i)}
          \cup (IF i = 1 /\ ids[1] > 0 THEN {ids[1] - 1} ELSE {}) |->
     IF id = ids[1] - 1 /\ i = 1 THEN 0
     ELSE haversine(latlngs[i],
                    latlngs[CHOOSE k \in LineNeighbours(Len(ids), i) : ids[k] = id])]

LineAdj(ids, latlngs, i) ==
  [id \in {ids[k] : k \in LineNeighbours(Len(ids), i)} |->
     haversine(latlngs[i],
               latlngs[CHOOSE k \in LineNeighbours(Len(ids), i) : ids[k] = id])]

\* the value of the counter after a line of n coordinates (line 251)
NextNodeIdPerLine(nodeId, n) == 0

NextNodeId(nodeId, n) == nodeId + n

RECURSIVE buildFrom(_, _, _)
buildFrom(features, graph, nodeId) ==
  IF features = <<>> THEN graph
  ELSE
    LET feature == Head(features) IN
    IF feature.geometry.type = "LineString"
    THEN
      LET coords == feature.geometry.coordinates
          n == Len(coords)
          ids == [i \in 1..n |-> nodeId + i - 1]
          latlngs == [i \in 1..n |-> <<coords[i][2], coords[i][1]>>]
          nodes == [i \in 1..n |->
                      [id |-> ids[i], latlng |-> latlngs[i],
                       adj |-> LineAdj(ids, latlngs, i)]]
          edges == [i \in 1..(n - 1) |->
                      [from |-> ids[i], to |-> ids[i + 1],
                       weight |-> haversine(latlngs[i], latlngs[i + 1])]]
      IN  buildFrom(Tail(features),
                    [nodes |-> MapSetAll(graph.nodes, nodes),
                     edges |-> graph.edges \o edges],
                    NextNodeId(nodeId, n))
    ELSE buildFrom(Tail(features), graph, nodeId)

buildTrailGraph(trailFeatures) ==
  buildFrom(trailFeatures, [nodes |-> <<>>, edges |-> <<>>], 0)

(***************************************************************************)
(* findNearestNode                                                         *)
(***************************************************************************)
\* the scan of lines 296-305 over the first k nodes: [nearest, minDist]
RECURSIVE nearestScanLast(_, _, _)
nearestScanLast(nodes, latlng, k) ==
  IF k = 0 THEN [nearest |-> None, minDist |-> Infinity]
  ELSE LET acc == nearestScanLast(nodes, latlng, k - 1)
           dist == haversine(latlng, nodes[k].latlng)
       IN  IF dist <= acc.minDist
           THEN [nearest |-> Some(nodes[k]), minDist |-> dist]
           ELSE acc

RECURSIVE nearestScan(_, _, _)
nearestScan(nodes, latlng, k) ==
  IF k = 0 THEN [nearest |-> None, minDist |-> Infinity]
  ELSE LET acc == nearestScan(nodes, latlng, k - 1)
           dist == haversine(latlng, nodes[k].latlng)
       IN  IF dist < acc.minDist
           THEN [nearest |-> Some(nodes[k]), minDist |-> dist]
           ELSE acc

findNearestNode(graph, latlng) ==
  IF graph = None \/ Len(graph[1].nodes) = 0 THEN None
  ELSE nearestScan(graph[1].nodes, latlng, Len(graph[1].nodes)).nearest

(***************************************************************************)
(* dijkstra                                                                *)
(***************************************************************************)
SeqToSet(s) == {s[i] : i \in 1..Len(s)}
SeqKeep(s, x) == s

SeqRemove(s, x) == SelectSeq(s, LAMBDA y : y # x)

\* lines 313-321
dijkstraInit(graph, startId) ==
  [distances |-> (startId :> 0)
                 @@ [id \in SeqToSet(MapKeys(graph.nodes)) |-> Infinity],
   previous  |-> <<>>,
   unvisited |-> MapKeys(graph.nodes),
   broke     |-> FALSE]

\* lines 324-332 over the first k unvisited ids: [current, minDist]
RECURSIVE selectScan(_, _, _)
selectScan(unvisited, distances, k) ==
  IF k = 0 THEN [current |-> None, minDist |-> Infinity]
  ELSE LET acc == selectScan(unvisited, distances, k - 1)
       IN  IF distances[unvisited[k]] < acc.minDist
           THEN [current |-> Some(unvisited[k]),
                 minDist |-> distances[unvisited[k]]]
           ELSE acc

\* lines 340-349: relax the neighbours of current
relax(graph, st, current, unvisited) ==
  LET adj == MapGet(graph.nodes, current).adj
      better == {n \in DOMAIN adj :
                   /\ n \in SeqToSet(unvisited)
                   /\ st.distances[current] + adj[n] < st.distances[n]}
  IN  [st EXCEPT
         !.distances = [n \in DOMAIN st.distances |->
                          IF n \in better
                          THEN st.distances[current] + adj[n]
                          ELSE st.distances[n]],
         !.previous = [n \in DOMAIN st.previous \cup better |->
                         IF n \in better THEN current ELSE st.previous[n]],
         !.unvisited = unvisited]

\* one iteration of the loop of lines 323-350
dijkstraIterate(graph, st, endId) ==
  LET sel == selectScan(st.unvisited, st.distances, Len(st.unvisited)) IN
  IF sel.current = None \/ sel.minDist = Infinity
  THEN [st EXCEPT !.broke = TRUE]
  ELSE LET current == sel.current[1]
           unvisited == SeqRemove(st.unvisited, current)
       IN  IF current = endId
           THEN [st EXCEPT !.unvisited = unvisited, !.broke = TRUE]
           ELSE relax(graph, st, current, unvisited)

\* lines 352-357: walk the predecessors back from endId
RECURSIVE walkBackPush(_, _, _, _)
walkBackPush(previous, current, path, fuel) ==
  IF fuel = 0 THEN path
  ELSE IF current \in DOMAIN previous
       THEN walkBackPush(previous, previous[current], Append(path, current), fuel - 1)
       ELSE Append(path, current)

RECURSIVE walkBack(_, _, _, _)
walkBack(previous, current, path, fuel) ==
  IF fuel = 0 THEN path
  ELSE IF current \in DOMAIN previous
       THEN walkBack(previous, previous[current], <<current>> \o path, fuel - 1)
       ELSE <<current>> \o path

\* line 315, new Set(graph.nodes.keys()): the loop deletes from a copy of the
\* keys, so the graph after a search is the graph before it
graphPruned(graph, unvisited) ==
  [graph EXCEPT !.nodes = SelectSeq(graph.nodes,
                                    LAMBDA node : node.id \in SeqToSet(unvisited))]

graphAfterSearch(graph, unvisited) == graph

\* line 359
pathOrNullAlways(path) == Some(path)

pathOrNullNonEmpty(path) == IF Len(path) > 0 THEN Some(path) ELSE None

pathOrNull(path) == IF Len(path) > 1 THEN Some(path) ELSE None

(***************************************************************************)
(* The trail graph as a state machine.  JavaScript runs each call to       *)
(* completion: while dijkstra is in its loop nothing else runs.            *)
(***************************************************************************)
NodeIds(graph) == SeqToSet(MapKeys(graph.nodes))

\* the globals of lines 17-21 and the page as it is loaded: nothing picked,
\* nothing drawn, no timer pending, the route drawer closed and empty
InitUI ==
  /\ pickMode = None
  /\ startLatLng = None
  /\ endLatLng = None
  /\ startMarker = None
  /\ endMarker = None
  /\ routeLine = None
  /\ mapLayers = {}
  /\ timers = <<>>
  /\ routeDrawer = [open |-> FALSE, content |-> None]
  /\ routeInfo = None
  /\ fetching = None

InitGraph ==
  /\ trailGraph = None
  /\ windowTrailFeatures = None
  /\ pc = "idle"
  /\ dj = None
  /\ ret = [fn |-> "none"]
  /\ inRoute = None
  /\ inPreferences = None
  /\ inContext = None
  /\ scoreLocals = None
  /\ scoreResult = None
  /\ defaultWeights = None
  /\ calls = <<>>
  /\ InitUI

\* loadLayer('trails', ...), lines 221-224, on the features that
\* filterGeoJSONFeatures let through.  The graph is built once: the state a
\* reload leads to does not depend on the state it starts from, so every
\* graph a reload can produce is reached by this first load too.
loadLayer(features) ==
  /\ pc = "idle"
  /\ trailGraph = None
  /\ windowTrailFeatures' = Some(features)
  /\ trailGraph' = Some(buildTrailGraph(features))
  /\ ret' = [fn |-> "loadLayer", features |-> features]
  /\ UNCHANGED <<pc, dj>>
  /\ UNCHANGED scoreVars
  /\ UNCHANGED uiVars

\* findNearestNode(latlng), lines 293-308
FindNearestNode(latlng) ==
  /\ pc = "idle"
  /\ ret' = [fn |-> "findNearestNode", latlng |-> latlng,
             value |-> findNearestNode(trailGraph, latlng)]
  /\ UNCHANGED <<trailGraph, windowTrailFeatures, pc, dj>>
  /\ UNCHANGED scoreVars
  /\ UNCHANGED uiVars

\* dijkstra(startId, endId) up to its loop, lines 310-321
DijkstraEnter(startId, endId) ==
  /\ pc = "idle"
  /\ IF trailGraph = None
     THEN /\ ret' = [fn |-> "dijkstra", startId |-> startId, endId |-> endId,
                     value |-> None]
          /\ UNCHANGED <<pc, dj>>
     ELSE /\ dj' = Some([startId |-> startId, endId |-> endId, iterations |-> 0,
                         after |-> ret.fn,
                         st |-> dijkstraInit(trailGraph[1], startId)])
          /\ pc' = "loop"
          /\ ret' = [fn |-> "dijkstra", startId |-> startId, endId |-> endId]
  /\ UNCHANGED <<trailGraph, windowTrailFeatures>>
  /\ UNCHANGED scoreVars
  /\ UNCHANGED uiVars

\* one iteration of while (unvisited.size > 0), lines 323-350
DijkstraLoop ==
  /\ pc = "loop"
  /\ Len(dj[1].st.unvisited) > 0
  /\ ~dj[1].st.broke
  /\ dj' = Some([dj[1] EXCEPT
                   !.st = dijkstraIterate(trailGraph[1], dj[1].st, dj[1].endId),
                   !.iterations = @ + 1])
  /\ UNCHANGED <<trailGraph, windowTrailFeatures, pc, ret>>
  /\ UNCHANGED scoreVars
  /\ UNCHANGED uiVars

\* after the loop: rebuild the path and return, lines 352-359
DijkstraReturn ==
  /\ pc = "loop"
  /\ Len(dj[1].st.unvisited) = 0 \/ dj[1].st.broke
  /\ LET path == walkBack(dj[1].st.previous, dj[1].endId, <<>>,
                          Len(trailGraph[1].nodes) + 1)
     IN  ret' = [fn |-> "dijkstra", startId |-> dj[1].startId, endId |-> dj[1].endId,
                 after |-> dj[1].after, path |-> path, value |-> pathOrNull(path)]
  /\ pc' = "idle"
  /\ dj' = None
  /\ trailGraph' = Some(graphAfterSearch(trailGraph[1], dj[1].st.unvisited))
  /\ UNCHANGED windowTrailFeatures
  /\ UNCHANGED scoreVars
  /\ UNCHANGED uiVars

NextGraph ==
  \/ \E features \in TrailFeatures(MaxNodes) : loadLayer(features)
  \/ \E lat \in QueryLats : FindNearestNode(<<lat, 0>>)
  \/ \E startId, endId \in IF trailGraph = None THEN {0} ELSE NodeIds(trailGraph[1]) :
       DijkstraEnter(startId, endId)
  \/ DijkstraLoop
  \/ DijkstraReturn

SpecGraph == InitGraph /\ [][NextGraph]_vars

\* a call that has started runs to completion
SpecGraphFair == SpecGraph /\ WF_vars(DijkstraLoop) /\ WF_vars(DijkstraReturn)

(***************************************************************************)
(* Numbers of the route scorer.  A score is an integer number of units of  *)
(* 1/ONE; route fractions, weights and rounded scores are in hundredths.   *)
(* Every product and quotient below is exact on the inputs of the model.   *)
(***************************************************************************)
ONE == 3000000

RECURSIVE GCD(_, _)
GCD(a, b) == IF b = 0 THEN a ELSE GCD(b, a % b)

\* p hundredths as a score
Pct(p) == p * (ONE \div 100)

\* x * num / den
Times(x, num, den) ==
  LET g == GCD(num, den) IN (x * (num \div g)) \div (den \div g)

\* a / b as a score (b > 0)
Ratio(a, b) ==
  LET g == GCD(a, b) IN ((a \div g) * ONE) \div (b \div g)

\* Math.round(x * 100), for x in units of 1 / (scale * ONE)
RoundHundredths(x, scale) == (2 * x + scale * (ONE \div 100)) \div (2 * scale * (ONE \div 100))

\* value || fallback, for a numeric property (0 and undefined are falsy)
OrDefault(obj, field, fallback) ==
  IF Has(obj, field) /\ obj[field] # 0 THEN obj[field] ELSE fallback

\* destructuring default: applies to undefined only
Destructure(obj, field, fallback) ==
  IF Has(obj, field) THEN obj[field] ELSE fallback

(***************************************************************************)
(* RouteScorer: the sub-scores                                             *)
(***************************************************************************)
\* this.defaultWeights, lines 12-18 (hundredths)
DefaultWeights ==
  [environment |-> 30, wildlife |-> 25, facility |-> 20, path |-> 15, personal |-> 10]

\* this.wildlifePatterns, lines 21-26
Species == <<"birds", "squirrels", "ducks", "swans">>
wildlifePatterns ==
  [birds     |-> {6, 7, 8, 17, 18, 19},
   squirrels |-> {8, 9, 10, 15, 16, 17},
   ducks     |-> {7, 8, 9, 16, 17, 18},
   swans     |-> {7, 8, 9, 10, 16, 17, 18}]

\* lines 86-96: the rain branch
weatherAfterRain(route, precipitation, score) ==
  IF precipitation > 0
  THEN LET shelterCoverage == OrDefault(route, "shelterCoverage", 30)
           base == Times(Pct(shelterCoverage), 8, 10)
       IN  IF precipitation > 5 THEN Times(base, 6, 10)
           ELSE IF precipitation > 2 THEN Times(base, 8, 10)
           ELSE base
  ELSE score

\* lines 98-106: the sunny and hot branch
weatherAfterSunOrRain(route, sunny, temperature, score) ==
  IF sunny /\ temperature > 25
  THEN LET shadeCoverage == OrDefault(route, "shadeCoverage", 40)
           base == Times(Pct(shadeCoverage), 9, 10)
       IN  Min(score, IF temperature > 30 THEN Times(base, 7, 10) ELSE base)
  ELSE score

weatherAfterSun(route, sunny, temperature, score) ==
  IF sunny /\ temperature > 25
  THEN LET shadeCoverage == OrDefault(route, "shadeCoverage", 40)
           base == Times(Pct(shadeCoverage), 9, 10)
       IN  IF temperature > 30 THEN Times(base, 7, 10) ELSE base
  ELSE score

\* lines 75-125
calculateWeatherScore(route, weatherData) ==
  LET precipitation == Destructure(weatherData, "precipitation", 0)
      temperature == Destructure(weatherData, "temperature", 15)
      windSpeed == Destructure(weatherData, "windSpeed", 5)
      humidity == Destructure(weatherData, "humidity", 60)
      sunny == Destructure(weatherData, "sunny", TRUE)
      rain == weatherAfterRain(route, precipitation, Pct(50))
      sun == weatherAfterSun(route, sunny, temperature, rain)
      mild == IF temperature >= 15 /\ temperature <= 25 /\ precipitation = 0
              THEN Max(sun, Pct(80)) ELSE sun
      wind == IF windSpeed > 15
              THEN Times(mild, 1000 - 3 * OrDefault(route, "exposureLevel", 50), 1000)
              ELSE mild
      humid == IF humidity > 80 THEN Times(wind, 9, 10) ELSE wind
  IN  Max(0, Min(ONE, humid))

\* lines 169-179
getTimeBasedProbability(hour, wildlifeData) ==
  Min(ONE,
      SumSeq([i \in 1..Len(Species) |->
                IF hour \in wildlifePatterns[Species[i]]
                THEN Pct(OrDefault(wildlifeData, Species[i], 20))
                ELSE 0]))

\* lines 188-193 (tenths)
seasonalMultipliers ==
  [spring |-> [birds |-> 12, squirrels |-> 10, ducks |-> 11, swans |-> 9],
   summer |-> [birds |-> 10, squirrels |-> 12, ducks |-> 8, swans |-> 8],
   autumn |-> [birds |-> 11, squirrels |-> 13, ducks |-> 10, swans |-> 10],
   winter |-> [birds |-> 7, squirrels |-> 6, ducks |-> 12, swans |-> 13]]

\* lines 187-203
getSeasonalProbability(season, species) ==
  LET multipliers == IF Has(seasonalMultipliers, season)
                     THEN seasonalMultipliers[season]
                     ELSE seasonalMultipliers.spring
  IN  Min(ONE,
          SumSeq([i \in 1..Len(species) |->
                    Times(Pct(10 * OrDefault(multipliers, species[i], 10)), 2, 10)]))

\* lines 210-227
calculateWildlifeLocationScore(route) ==
  LET water == IF Has(route, "nearWater") /\ route.nearWater THEN Pct(30) ELSE 0
      vegetationCoverage == OrDefault(route, "vegetationCoverage", 50)
      quietness == ONE - Pct(OrDefault(route, "crowdDensity", 50))
  IN  Min(ONE, Pct(30) + water + Times(Pct(vegetationCoverage), 4, 10)
                 + Times(quietness, 3, 10))

\* lines 134-161
calculateWildlifeScore(route, hour, season) ==
  LET timeScore == getTimeBasedProbability(hour, Destructure(route, "wildlifeData", <<>>))
      seasonScore == getSeasonalProbability(season, Destructure(route, "species", <<>>))
      historicalScore == Pct(OrDefault(route, "wildlifeHistory", 60))
      recentSightings == Destructure(route, "recentSightings", <<>>)
      contributionScore == Min(ONE, Ratio(Len(recentSightings), 10))
      locationScore == calculateWildlifeLocationScore(route)
  IN  Times(timeScore, 25, 100) + Times(seasonScore, 20, 100)
      + Times(historicalScore, 25, 100) + Times(contributionScore, 15, 100)
      + Times(locationScore, 15, 100)

\* lines 239-244: the basic facilities, averaged over the three types
basicFacilities == <<"toilet", "bench", "water">>

basicFacilityScore(facilities, route) ==
  LET metres == Max(1000, OrDefault(route, "distance", 1000))
      part(type) ==
        Min(ONE, Ratio(1000 * Len(SelectSeq(facilities, LAMBDA f : f.type = type)),
                       2 * metres))
  IN  SumSeq([i \in 1..Len(basicFacilities) |-> part(basicFacilities[i])])
        \div Len(basicFacilities)

\* lines 269-280: 1 - |ideal - actual| / ideal, with ideal = L / max(1, n) and
\* actual = L / n, is 1 - |L * n - L * max(1, n)| / (L * n)
calculateFacilityDistribution(facilities, route) ==
  IF Len(facilities) = 0 THEN 0
  ELSE LET routeLength == OrDefault(route, "distance", 1000)
           n == Len(facilities)
           uniformity ==
             ONE - Ratio(Abs(routeLength * n - routeLength * Max(1, n)), routeLength * n)
       IN  Max(0, Min(ONE, uniformity))

\* lines 288-303
calculatePersonalFacilityScore(facilities, userNeeds) ==
  IF DOMAIN userNeeds = {} THEN Pct(50)
  ELSE LET needed == {need \in DOMAIN userNeeds : userNeeds[need]}
           met == {need \in needed :
                     \E i \in 1..Len(facilities) : facilities[i].type = need}
       IN  IF Cardinality(needed) > 0
           THEN Ratio(Cardinality(met), Cardinality(needed))
           ELSE Pct(50)

\* lines 310-315
calculateFacilityStatus(facilities) ==
  IF Len(facilities) = 0 THEN Pct(50)
  ELSE LET openFacilities ==
             SelectSeq(facilities,
                       LAMBDA f : ~(Has(f, "status")
                                    /\ f.status \in {"closed", "maintenance"}))
       IN  Ratio(Len(openFacilities), Len(facilities))

\* lines 235-261
calculateFacilityScore(route, userNeeds) ==
  LET facilities == Destructure(route, "facilities", <<>>)
  IN  Times(basicFacilityScore(facilities, route), 30, 100)
      + Times(calculateFacilityDistribution(facilities, route), 25, 100)
      + Times(calculatePersonalFacilityScore(facilities, userNeeds), 25, 100)
      + Times(calculateFacilityStatus(facilities), 20, 100)

\* lines 322-343, without the cap of line 342
pathQualitySum(route) ==
  LET surfaceQuality == Pct(OrDefault(route, "surfaceQuality", 70))
      gradient == OrDefault(route, "gradient", 5)
      gradientScore == Max(0, ONE - Pct(10 * gradient))
      safety == Pct(OrDefault(route, "safety", 80))
      scenery == Pct(OrDefault(route, "scenery", 60))
  IN  Pct(50) + Times(surfaceQuality, 3, 10) + Times(gradientScore, 2, 10)
      + Times(safety, 3, 10) + Times(scenery, 2, 10)

calculatePathQualityUncapped(route) == pathQualitySum(route)

\* lines 322-343
calculatePathQuality(route) == Min(ONE, pathQualitySum(route))

\* lines 351-387
calculatePersonalPreference(route, preferences) ==
  IF DOMAIN preferences = {} THEN Pct(50)
  ELSE
    LET distancePart ==
          IF Has(preferences, "preferredDistance") /\ preferences.preferredDistance # 0
          THEN LET distanceDiff == Abs(OrDefault(route, "distance", 1000)
                                       - preferences.preferredDistance)
                   distanceScore ==
                     Max(0, ONE - Ratio(distanceDiff, preferences.preferredDistance))
               IN  Times(distanceScore, 3, 10)
          ELSE 0
        difficultyPart ==
          IF Has(preferences, "difficultyLevel")
          THEN LET routeDifficulty == Destructure(route, "difficulty", "easy")
               IN  IF routeDifficulty = preferences.difficultyLevel
                   THEN Times(ONE, 2, 10) ELSE Times(Pct(50), 2, 10)
          ELSE 0
        interestPart ==
          IF Has(preferences, "interests") /\ Has(route, "themes")
          THEN LET commonInterests ==
                     SelectSeq(preferences.interests,
                               LAMBDA interest : interest \in SeqToSet(route.themes))
                   interestScore ==
                     Ratio(Len(commonInterests), Max(1, Len(preferences.interests)))
               IN  Times(interestScore, 3, 10)
          ELSE 0
        timePart ==
          IF Has(preferences, "preferredDuration") /\ preferences.preferredDuration # 0
          THEN LET timeDiff == Abs(OrDefault(route, "estimatedTime", 30)
                                   - preferences.preferredDuration)
                   timeScore ==
                     Max(0, ONE - Ratio(timeDiff, preferences.preferredDuration))
               IN  Times(timeScore, 2, 10)
          ELSE 0
    IN  Min(ONE, Pct(50) + distancePart + difficultyPart + interestPart + timePart)

(***************************************************************************)
(* RouteScorer: weights, reasons, calculateScore                           *)
(***************************************************************************)
Flag(preferences, name) == Has(preferences, name) /\ preferences[name]

\* lines 407-411: the weatherSensitive deltas
weatherSensitiveDeltaUnbalanced(weights) ==
  [weights EXCEPT !.environment = @ + 20]

weatherSensitiveDelta(weights) ==
  [weights EXCEPT !.environment = @ + 20, !.wildlife = @ - 10, !.path = @ - 10]

\* lines 394-428
adjustWeights(defaults, preferences) ==
  LET w0 == defaults
      w1 == IF Flag(preferences, "prioritizeWildlife")
            THEN [w0 EXCEPT !.wildlife = @ + 15, !.environment = @ - 10,
                            !.facility = @ - 5]
            ELSE w0
      w2 == IF Flag(preferences, "weatherSensitive")
            THEN weatherSensitiveDelta(w1) ELSE w1
      w3 == IF Flag(preferences, "facilityDependent")
            THEN [w2 EXCEPT !.facility = @ + 15, !.wildlife = @ - 5, !.path = @ - 10]
            ELSE w2
      w4 == IF Flag(preferences, "prioritizePathQuality")
            THEN [w3 EXCEPT !.path = @ + 15, !.personal = @ - 5,
                            !.environment = @ - 10]
            ELSE w3
  IN  w4

\* line 485: reasons.slice(0, 3)
sliceAll(reasons) == reasons

slice3(reasons) == SubSeq(reasons, 1, Min(3, Len(reasons)))

\* lines 440-486
generateReasons(weatherScore, wildlifeScore, facilityScore, pathScore, personalScore, preferences) ==
  LET reasons ==
           (IF weatherScore > Pct(80) THEN <<"weather-good">>
            ELSE IF weatherScore < Pct(40) THEN <<"weather-poor">> ELSE <<>>)
        \o (IF wildlifeScore > Pct(70) THEN <<"wildlife-high">>
            ELSE IF wildlifeScore > Pct(50) THEN <<"wildlife-some">> ELSE <<>>)
        \o (IF facilityScore > Pct(80) THEN <<"facility-good">>
            ELSE IF facilityScore < Pct(40) THEN <<"facility-poor">> ELSE <<>>)
        \o (IF pathScore > Pct(80) THEN <<"path-good">>
            ELSE IF pathScore < Pct(50) THEN <<"path-hard">> ELSE <<>>)
        \o (IF personalScore > Pct(70) THEN <<"personal-match">> ELSE <<>>)
        \o (IF Flag(preferences, "prioritizeWildlife") /\ wildlifeScore > Pct(60)
            THEN <<"wildlife-lover">> ELSE <<>>)
        \o (IF Flag(preferences, "weatherSensitive") /\ weatherScore > Pct(70)
            THEN <<"weather-friendly">> ELSE <<>>)
  IN  slice3(reasons)

\* lines 48-53, in units of 1 / (100 * ONE)
totalOfRounded(sub, weights) ==
  (ONE \div 100) *
    ( RoundHundredths(sub.weather, 1) * weights.environment
    + RoundHundredths(sub.wildlife, 1) * weights.wildlife
    + RoundHundredths(sub.facility, 1) * weights.facility
    + RoundHundredths(sub.path, 1) * weights.path
    + RoundHundredths(sub.personal, 1) * weights.personal)

totalScoreOf(sub, weights) ==
    sub.weather * weights.environment
  + sub.wildlife * weights.wildlife
  + sub.facility * weights.facility
  + sub.path * weights.path
  + sub.personal * weights.personal

\* lines 38-42: the five sub-scores; now is the hour of new Date()
subScores(route, preferences, context, now) ==
  [weather  |-> calculateWeatherScore(route, Destructure(context, "weather", <<>>)),
   wildlife |-> calculateWildlifeScore(route, Destructure(context, "time", now),
                                       Destructure(context, "season", "spring")),
   facility |-> calculateFacilityScore(route, Destructure(preferences, "needs", <<>>)),
   path     |-> calculatePathQuality(route),
   personal |-> calculatePersonalPreference(route, preferences)]

\* lines 36-67
calculateScore(sub, weights, preferences) ==
  [total |-> RoundHundredths(totalScoreOf(sub, weights), 100),
   breakdown |-> [weather  |-> RoundHundredths(sub.weather, 1),
                  wildlife |-> RoundHundredths(sub.wildlife, 1),
                  facility |-> RoundHundredths(sub.facility, 1),
                  path     |-> RoundHundredths(sub.path, 1),
                  personal |-> RoundHundredths(sub.personal, 1)],
   weights |-> weights,
   reasons |-> generateReasons(sub.weather, sub.wildlife, sub.facility, sub.path,
                               sub.personal, preferences)]

(***************************************************************************)
(* Inputs of the scorer: valid routes (fractions within [0,1], in          *)
(* hundredths; positive distance in metres and duration in minutes), user  *)
(* preferences and contexts.  A route is put together from one choice for  *)
(* each group of properties; a missing property is undefined.              *)
(***************************************************************************)
NoProps == <<>>

BaseProps ==
  { [distance |-> 500, estimatedTime |-> 15, difficulty |-> "easy",
     themes |-> <<"nature", "water">>],
    [distance |-> 2000, estimatedTime |-> 60, difficulty |-> "hard"] }

WeatherProps ==
  { NoProps,
    [shelterCoverage |-> 40, shadeCoverage |-> 60, exposureLevel |-> 50],
    [shelterCoverage |-> 10, shadeCoverage |-> 100, exposureLevel |-> 100] }

WildlifeProps ==
  { NoProps,
    [wildlifeData |-> [birds |-> 80, squirrels |-> 60],
     species |-> <<"birds", "squirrels", "ducks", "swans", "heron">>,
     wildlifeHistory |-> 100,
     recentSightings |-> [i \in 1..10 |-> "sighting"],
     nearWater |-> TRUE, vegetationCoverage |-> 100, crowdDensity |-> 10],
    [wildlifeData |-> [birds |-> 10],
     species |-> <<>>,
     wildlifeHistory |-> 10,
     recentSightings |-> <<"sighting">>,
     nearWater |-> FALSE, vegetationCoverage |-> 10, crowdDensity |-> 100] }

Open(type) == [type |-> type, status |-> "open"]

FacilityProps ==
  { NoProps,
    [facilities |-> << [type |-> "toilet"],
                       [type |-> "bench", status |-> "closed"],
                       [type |-> "cafe", status |-> "maintenance"] >>],
    [facilities |-> << Open("toilet"), Open("toilet"), Open("bench"),
                       Open("bench"), Open("water"), Open("water") >>] }

PathProps ==
  { NoProps,
    [surfaceQuality |-> 100, gradient |-> 1, safety |-> 100, scenery |-> 100],
    [surfaceQuality |-> 10, gradient |-> 50, safety |-> 10, scenery |-> 10] }

\* the routes that define every group of properties, and the routes that
\* leave all groups, or all groups but one, undefined
Routes ==
  { t[1] @@ t[2] @@ t[3] @@ t[4] @@ t[5] :
      t \in { u \in BaseProps \X WeatherProps \X WildlifeProps
                     \X FacilityProps \X PathProps :
                Cardinality({i \in 2..5 : DOMAIN u[i] = {}}) \in {0, 3, 4} } }

PreferenceFlags ==
  {"prioritizeWildlife", "weatherSensitive", "facilityDependent",
   "prioritizePathQuality"}

PreferenceProps ==
  { NoProps,
    [needs |-> [toilet |-> TRUE, water |-> TRUE, shop |-> FALSE],
     preferredDistance |-> 1000, difficultyLevel |-> "easy",
     interests |-> <<"nature", "history", "water">>,
     preferredDuration |-> 30] }

Preferences ==
  { [flag \in flags |-> TRUE] @@ props :
      flags \in SUBSET PreferenceFlags, props \in PreferenceProps }

WeatherReadings ==
  { [precipitation |-> 6],
    [precipitation |-> 3, temperature |-> 32, sunny |-> TRUE, windSpeed |-> 20,
     humidity |-> 90],
    [precipitation |-> 0, temperature |-> 28, sunny |-> TRUE, windSpeed |-> 5,
     humidity |-> 60],
    [precipitation |-> 1, temperature |-> 10, sunny |-> FALSE, windSpeed |-> 20,
     humidity |-> 90],
    [precipitation |-> 1, temperature |-> 28] }

Contexts ==
  { weather @@ clock :
      weather \in {NoProps} \cup {[weather |-> r] : r \in WeatherReadings},
      clock \in { NoProps,
                  [time |-> 8, season |-> "spring"],
                  [time |-> 12, season |-> "winter"] } }

\* the hour new Date() gives when the context has no time
Hours == {3, 17}

(***************************************************************************)
(* The scorer as a state machine: one RouteScorer, one calculateScore.     *)
(***************************************************************************)
InitScore ==
  /\ defaultWeights = DefaultWeights
  /\ calls = <<>>
  /\ inRoute = None
  /\ inPreferences = None
  /\ inContext = None
  /\ scoreLocals = None
  /\ scoreResult = None
  /\ trailGraph = None
  /\ windowTrailFeatures = None
  /\ pc = "idle"
  /\ dj = None
  /\ ret = [fn |-> "none"]
  /\ InitUI

\* line 395, { ...this.defaultWeights }: adjustWeights works on a copy, so the
\* scorer's defaultWeights after a call are those before it
defaultsAliased(defaults, weights) == weights

defaultsAfterAdjust(defaults, weights) == defaults

\* scorer.calculateScore(route, preferences, context), lines 36-67
CalculateScore(route, preferences, context, now) ==
  /\ LET sub == subScores(route, preferences, context, now)
         weights == adjustWeights(defaultWeights, preferences)
         result == calculateScore(sub, weights, preferences)
     IN  /\ scoreLocals' = Some(sub)
         /\ scoreResult' = Some(result)
         /\ defaultWeights' = defaultsAfterAdjust(defaultWeights, weights)
         /\ calls' = Append(calls, [fn |-> "calculateScore", route |-> route,
                                    preferences |-> preferences,
                                    context |-> context, result |-> result])
  /\ inRoute' = Some(route)
  /\ inPreferences' = Some(preferences)
  /\ inContext' = Some(context)
  /\ UNCHANGED graphVars
  /\ UNCHANGED uiVars

NextScore ==
  /\ scoreResult = None
  /\ \E route \in Routes, preferences \in Preferences, context \in Contexts,
        now \in Hours :
       CalculateScore(route, preferences, context, now)

SpecScore == InitScore /\ [][NextScore]_vars

(***************************************************************************)
(* RouteScorer.recommendRoutes.  A point is [lat, lng] in steps of 0.001   *)
(* degree; the points of the model lie on one meridian.  A distance score  *)
(* is an integer number of units of 1/5000.                                *)
(***************************************************************************)
\* lines 619-632, for two points of one meridian
calculateDistance(point1, point2) == MetersPerStep * Abs(point2.lat - point1.lat)

\* lines 638-647
getCurrentWeather ==
  [temperature |-> 18, precipitation |-> 0, windSpeed |-> 8, humidity |-> 65,
   sunny |-> TRUE]

\* a filter that is missing, or 0, is not applied (lines 567-588)
Active(filters, name) == Has(filters, name) /\ filters[name] # 0

\* lines 565-591
meetsBasicCriteriaNoDuration(route, filters) ==
  /\ ~(Active(filters, "maxDistance") /\ route.distance > filters.maxDistance)
  /\ ~(Active(filters, "minDistance") /\ route.distance < filters.minDistance)
  /\ ~(Has(filters, "difficulty") /\ route.difficulty # filters.difficulty)
  /\ ~(Flag(filters, "accessible") /\ ~Flag(route, "accessible"))

meetsBasicCriteria(route, filters) ==
  /\ ~(Active(filters, "maxDistance") /\ route.distance > filters.maxDistance)
  /\ ~(Active(filters, "minDistance") /\ route.distance < filters.minDistance)
  /\ ~(Active(filters, "maxDuration") /\ route.estimatedTime > filters.maxDuration)
  /\ ~(Has(filters, "difficulty") /\ route.difficulty # filters.difficulty)
  /\ ~(Flag(filters, "accessible") /\ ~Flag(route, "accessible"))

\* lines 604-607: themes1.filter(theme => themes2.includes(theme)).length
commonThemes(themes1, themes2) ==
  Len(SelectSeq(themes1, LAMBDA theme : theme \in SeqToSet(themes2)))

\* lines 599-611: distance difference below 20% and theme overlap above 60%
areRoutesSimilar(route1, route2) ==
  LET themes1 == Destructure(route1, "themes", <<>>)
      themes2 == Destructure(route2, "themes", <<>>)
  IN  /\ 5 * Abs(route1.distance - route2.distance)
           < Max(route1.distance, route2.distance)
      /\ 5 * commonThemes(themes1, themes2)
           > 3 * Max(Max(Len(themes1), Len(themes2)), 1)

\* lines 517-521, in units of 1/5000
distanceScoreOf(route, userLocation) ==
  IF userLocation # None /\ Has(route, "startPoint")
  THEN Max(0, 5000 - calculateDistance(userLocation[1], route.startPoint))
  ELSE 2500

\* lines 513-532: the derived record of one eligible route; line 529 reads
\* route.startPoint.lat whenever a user location is given
scoredRoute(route, result, userLocation) ==
  [score |-> result.total, breakdown |-> result.breakdown,
   weights |-> result.weights, reasons |-> result.reasons,
   distanceFromUser |-> IF userLocation # None
                        THEN Some(calculateDistance(userLocation[1], route.startPoint))
                        ELSE None,
   distanceScore |-> distanceScoreOf(route, userLocation)] @@ route

\* line 529 on a route without start point: TypeError
distanceThrows(route, userLocation) ==
  userLocation # None /\ ~Has(route, "startPoint")

\* lines 535-542: the comparator; the scores are in hundredths
compareRoutes(a, b) ==
  LET scoreDiff == b.score - a.score
  IN  IF Abs(scoreDiff) < 10 THEN a.distanceScore - b.distanceScore ELSE scoreDiff

\* Array.prototype.sort (line 535).  ECMAScript fixes the outcome, the
\* stable order, only for a consistent comparator: one whose ties are an
\* equivalence and whose "before" and "after" are transitive on the elements
\* of the array.  For any other comparator the order is implementation-defined.
consistentComparator(elems) ==
  LET eq(a, b) == compareRoutes(a, b) = 0
      lt(a, b) == compareRoutes(a, b) < 0
      gt(a, b) == compareRoutes(a, b) > 0
  IN  \A a \in elems : \A b \in elems :
        /\ eq(a, b) => eq(b, a)
        /\ \A c \in elems :
             /\ (eq(a, b) /\ eq(b, c)) => eq(a, c)
             /\ (lt(a, b) /\ lt(b, c)) => lt(a, c)
             /\ (gt(a, b) /\ gt(b, c)) => gt(a, c)

\* x placed after the last element that does not come after it
RECURSIVE insertStable(_, _)
insertStable(sorted, x) ==
  IF sorted = <<>> THEN <<x>>
  ELSE IF compareRoutes(x, sorted[Len(sorted)]) < 0
       THEN Append(insertStable(SubSeq(sorted, 1, Len(sorted) - 1), x),
                   sorted[Len(sorted)])
       ELSE Append(sorted, x)

RECURSIVE stableSort(_)
stableSort(seq) ==
  IF seq = <<>> THEN <<>>
  ELSE insertStable(stableSort(SubSeq(seq, 1, Len(seq) - 1)), seq[Len(seq)])

Orderings(seq) ==
  { [i \in 1..Len(seq) |-> seq[f[i]]] :
      f \in { g \in [1..Len(seq) -> 1..Len(seq)] :
                \A i, j \in 1..Len(seq) : g[i] = g[j] => i = j } }

sortOutcomes(scoredRoutes) ==
  IF consistentComparator(SeqToSet(scoredRoutes))
  THEN {stableSort(scoredRoutes)}
  ELSE Orderings(scoredRoutes)

\* lines 544-556 without the slice
diversifyKeepAll(sortedRoutes) == sortedRoutes

\* lines 544-556 without the scan for a replacement
top2Plain(sortedRoutes) == SubSeq(sortedRoutes, 1, Min(2, Len(sortedRoutes)))

\* lines 544-556
diversify(sortedRoutes) ==
  LET top2 == SubSeq(sortedRoutes, 1, Min(2, Len(sortedRoutes)))
      others == { i \in 3..Len(sortedRoutes) :
                    ~areRoutesSimilar(top2[1], sortedRoutes[i]) }
  IN  IF Len(top2) = 2 /\ areRoutesSimilar(top2[1], top2[2]) /\ others # {}
      THEN <<top2[1], sortedRoutes[CHOOSE i \in others : \A j \in others : i <= j]>>
      ELSE top2

(***************************************************************************)
(* Inputs of recommendRoutes: lists of distinct routes of a park, filters, *)
(* a user location or null, a user profile, and the clock that new Date()  *)
(* and getCurrentSeason() read.                                            *)
(***************************************************************************)
MaxRoutes == 4

RichWildlife ==
  [wildlifeData |-> [birds |-> 80, squirrels |-> 60],
   species |-> <<"birds", "squirrels", "ducks", "swans", "heron">>,
   wildlifeHistory |-> 100,
   recentSightings |-> [i \in 1..10 |-> "sighting"],
   nearWater |-> TRUE, vegetationCoverage |-> 100, crowdDensity |-> 10]

SomeFacilities ==
  [facilities |-> << [type |-> "toilet"],
                     [type |-> "bench", status |-> "closed"],
                     [type |-> "cafe", status |-> "maintenance"] >>]

ManyFacilities ==
  [facilities |-> << Open("toilet"), Open("toilet"), Open("bench"),
                     Open("bench"), Open("water"), Open("water") >>]

\* three lakeside loops that resemble each other, a long history trail, and a
\* short path without themes, start point or accessibility flag
ParkRoutes ==
  { [id |-> "lake-a", distance |-> 1000, estimatedTime |-> 30, difficulty |-> "easy",
     themes |-> <<"nature", "water">>, accessible |-> TRUE,
     startPoint |-> [lat |-> 0, lng |-> 0]] @@ RichWildlife @@ ManyFacilities,
    [id |-> "lake-b", distance |-> 1100, estimatedTime |-> 35, difficulty |-> "easy",
     themes |-> <<"nature", "water">>, accessible |-> TRUE,
     startPoint |-> [lat |-> 20, lng |-> 0]] @@ RichWildlife @@ SomeFacilities,
    [id |-> "lake-c", distance |-> 1050, estimatedTime |-> 50, difficulty |-> "easy",
     themes |-> <<"water", "nature">>, accessible |-> FALSE,
     startPoint |-> [lat |-> 40, lng |-> 0]] @@ RichWildlife,
    [id |-> "history", distance |-> 3000, estimatedTime |-> 90, difficulty |-> "hard",
     themes |-> <<"history">>, accessible |-> TRUE,
     startPoint |-> [lat |-> 60, lng |-> 0]],
    [id |-> "shortcut", distance |-> 950, estimatedTime |-> 20, difficulty |-> "easy"]
      @@ SomeFacilities }

RECURSIVE RouteLists(_)
RouteLists(n) ==
  IF n = 0 THEN {<<>>}
  ELSE RouteLists(n - 1)
       \cup { Append(list, route) :
                list \in {l \in RouteLists(n - 1) : Len(l) = n - 1},
                route \in ParkRoutes }

DistinctRouteLists ==
  { list \in RouteLists(MaxRoutes) :
      \A i, j \in 1..Len(list) : list[i].id = list[j].id => i = j }

UserFilters ==
  { NoProps,
    [minDistance |-> 1000, maxDistance |-> 2000],
    [maxDuration |-> 45],
    [difficulty |-> "easy", accessible |-> TRUE],
    [difficulty |-> "moderate"],
    [weather |-> [precipitation |-> 6]] }

UserLocations == {None, Some([lat |-> 0, lng |-> 0]), Some([lat |-> 30, lng |-> 0])}

UserProfiles == {NoProps, [weatherSensitive |-> TRUE, facilityDependent |-> TRUE]}

\* the hour of new Date() and the season of its month
Clocks == {[hour |-> 17, season |-> "spring"], [hour |-> 3, season |-> "winter"]}

(***************************************************************************)
(* recommendRoutes as a state machine: one RouteScorer, one call.          *)
(***************************************************************************)
\* lines 498, 513 and 535: filter and map build new arrays and sort reorders
\* the mapped one, so the caller's array after the call is the one passed in
callerArraySorted(allRoutes, sortedRoutes) == sortedRoutes

callerArrayAfter(allRoutes, sortedRoutes) == allRoutes

\* lines 507-511
recommendContext(userFilters, clock) ==
  [weather |-> IF Has(userFilters, "weather") THEN userFilters.weather
               ELSE getCurrentWeather,
   time |-> clock.hour, season |-> clock.season]

\* line 514
scoreOf(defaults, route, preferences, context, now) ==
  calculateScore(subScores(route, preferences, context, now),
                 adjustWeights(defaults, preferences), preferences)

\* scorer.recommendRoutes(allRoutes, userFilters, userLocation, userProfile),
\* lines 496-557
RecommendRoutes(allRoutes, userFilters, userLocation, userProfile, clock) ==
  LET call == [fn |-> "recommendRoutes", allRoutes |-> allRoutes,
               userFilters |-> userFilters, userLocation |-> userLocation,
               userProfile |-> userProfile, clock |-> clock]
      eligibleRoutes ==
        SelectSeq(allRoutes, LAMBDA route : meetsBasicCriteria(route, userFilters))
      context == recommendContext(userFilters, clock)
  IN  /\ IF Len(eligibleRoutes) = 0
         THEN ret' = call @@ [eligibleRoutes |-> eligibleRoutes, sortedRoutes |-> <<>>,
                              callerRoutes |-> callerArrayAfter(allRoutes, <<>>),
                              value |-> <<>>]
         ELSE IF \E i \in 1..Len(eligibleRoutes) :
                   distanceThrows(eligibleRoutes[i], userLocation)
         THEN ret' = call @@ [eligibleRoutes |-> eligibleRoutes,
                              callerRoutes |-> callerArrayAfter(allRoutes, <<>>),
                              error |-> "TypeError"]
         ELSE LET scoredRoutes ==
                    [i \in 1..Len(eligibleRoutes) |->
                       scoredRoute(eligibleRoutes[i],
                                   scoreOf(defaultWeights, eligibleRoutes[i],
                                           userProfile, context, clock.hour),
                                   userLocation)]
              IN  \E sortedRoutes \in sortOutcomes(scoredRoutes) :
                    ret' = call @@ [eligibleRoutes |-> eligibleRoutes,
                                    sortedRoutes |-> sortedRoutes,
                                    callerRoutes |-> callerArrayAfter(allRoutes, sortedRoutes),
                                    value |-> diversify(sortedRoutes)]
      /\ defaultWeights' = defaultsAfterAdjust(defaultWeights,
                                               adjustWeights(defaultWeights, userProfile))
      /\ calls' = Append(calls, [fn |-> "recommendRoutes"])
      /\ UNCHANGED <<trailGraph, windowTrailFeatures, pc, dj>>
      /\ UNCHANGED <<inRoute, inPreferences, inContext, scoreLocals, scoreResult>>
      /\ UNCHANGED uiVars

NextRecommend ==
  /\ ret.fn = "none"
  /\ \E allRoutes \in DistinctRouteLists, userFilters \in UserFilters,
        userLocation \in UserLocations, userProfile \in UserProfiles,
        clock \in Clocks :
       RecommendRoutes(allRoutes, userFilters, userLocation, userProfile, clock)

SpecRecommend == InitScore /\ [][NextRecommend]_vars

(***************************************************************************)
(* One RouteScorer used for several calls in a row.                        *)
(***************************************************************************)
MaxCalls == 3

CallRoutes == {r \in ParkRoutes : r.id = "lake-a"}

CallContexts == {NoProps, [time |-> 8, season |-> "spring"]}

CallLists == {list \in DistinctRouteLists : Len(list) = 1}

NextCalls ==
  /\ Len(calls) < MaxCalls
  /\ \/ \E route \in CallRoutes, preferences \in UserProfiles,
            context \in CallContexts, now \in Hours :
           CalculateScore(route, preferences, context, now)
     \/ \E allRoutes \in CallLists, userProfile \in UserProfiles, clock \in Clocks :
           RecommendRoutes(allRoutes, NoProps, None, userProfile, clock)

SpecCalls == InitScore /\ [][NextCalls]_vars

(***************************************************************************)
(* Claims about the trail graph (checked under SpecGraph)                  *)
(***************************************************************************)
Adjacent(graph, a, b) ==
  MapHas(graph.nodes, a) /\ b \in DOMAIN MapGet(graph.nodes, a).adj

\* the simple paths of the graph that extend p to e
RECURSIVE PathsExtending(_, _, _)
PathsExtending(graph, p, e) ==
  IF p[Len(p)] = e THEN {p}
  ELSE UNION {PathsExtending(graph, Append(p, n), e) :
                n \in DOMAIN MapGet(graph.nodes, p[Len(p)]).adj \ SeqToSet(p)}

SimplePaths(graph, s, e) == PathsExtending(graph, <<s>>, e)

PathWeight(graph, p) ==
  SumSeq([i \in 1..(Len(p) - 1) |-> MapGet(graph.nodes, p[i]).adj[p[i + 1]]])

Returned(fn) == ret.fn = fn /\ Has(ret, "value")

\* C1: for two distinct connected node ids of a built graph, dijkstra returns a
\* sequence that begins with start, ends with end, steps only along adjacency
\* entries, and whose summed weight is minimal among all start-to-end paths.
C1_ShortestPath ==
  (/\ Returned("dijkstra")
   /\ trailGraph # None
   /\ ret.startId # ret.endId
   /\ SimplePaths(trailGraph[1], ret.startId, ret.endId) # {})
  => /\ ret.value # None
     /\ LET path == ret.value[1]
            g == trailGraph[1]
        IN  /\ path[1] = ret.startId
            /\ path[Len(path)] = ret.endId
            /\ \A i \in 1..(Len(path) - 1) : Adjacent(g, path[i], path[i + 1])
            /\ \A q \in SimplePaths(g, ret.startId, ret.endId) :
                 PathWeight(g, path) <= PathWeight(g, q)

C1_Witness ==
  /\ Returned("dijkstra")
  /\ ret.value # None
  /\ Len(ret.value[1]) >= 3
  /\ PathWeight(trailGraph[1], ret.value[1]) > 0

\* C2: dijkstra(s, s) yields the single-element path [s] for every node id s.
C2_TrivialPath ==
  (/\ Returned("dijkstra")
   /\ trailGraph # None
   /\ ret.startId = ret.endId)
  => ret.value = Some(<<ret.startId>>)

\* C3: when end is not reachable from start (distinct ids, no chain of
\* adjacency entries links them) dijkstra returns null: a normal value, no
\* empty or partial path.
C3_UnreachableIsNull ==
  (/\ Returned("dijkstra")
   /\ trailGraph # None
   /\ ret.startId # ret.endId
   /\ SimplePaths(trailGraph[1], ret.startId, ret.endId) = {})
  => ret.value = None

C3_Witness ==
  /\ Returned("dijkstra")
  /\ trailGraph # None
  /\ ret.startId # ret.endId
  /\ SimplePaths(trailGraph[1], ret.startId, ret.endId) = {}
  /\ ret.value = None
  /\ Len(trailGraph[1].edges) >= 2

LineCounts(features) ==
  LET lines == SelectSeq(features, LAMBDA f : f.geometry.type = "LineString")
  IN  [i \in 1..Len(lines) |-> Len(lines[i].geometry.coordinates)]

\* C4: buildTrailGraph on lines with n1..nK coordinates gives exactly the sum
\* of the ni nodes, with distinct ids taken from one counter, and exactly the
\* sum of (ni - 1) edges.
C4_NodeAndEdgeCount ==
  ret.fn = "loadLayer"
  => LET g == trailGraph[1]
         counts == LineCounts(ret.features)
         total == SumSeq(counts)
     IN  /\ Len(g.nodes) = total
         /\ NodeIds(g) = 0..(total - 1)
         /\ \A i \in 1..total : g.nodes[i].id = i - 1
         /\ Len(g.edges) = SumSeq([i \in 1..Len(counts) |-> counts[i] - 1])

C4_Witness ==
  /\ ret.fn = "loadLayer"
  /\ Len(LineCounts(ret.features)) >= 2
  /\ Len(ret.features) > Len(LineCounts(ret.features))
  /\ Len(trailGraph[1].edges) >= 1
  /\ \E i \in 1..Len(LineCounts(ret.features)) : LineCounts(ret.features)[i] = 1

\* C5: every edge has both endpoints in graph.nodes; adjacency is symmetric
\* with equal weights; every adjacency pair corresponds to an entry of edges.
C5_GraphInvariant ==
  trailGraph # None
  => LET g == trailGraph[1] IN
     /\ \A i \in 1..Len(g.edges) :
          /\ MapHas(g.nodes, g.edges[i].from)
          /\ MapHas(g.nodes, g.edges[i].to)
     /\ \A i \in 1..Len(g.nodes) : \A b \in DOMAIN g.nodes[i].adj :
          LET a == g.nodes[i].id
              w == g.nodes[i].adj[b]
          IN  /\ MapHas(g.nodes, b)
              /\ a \in DOMAIN MapGet(g.nodes, b).adj
              /\ MapGet(g.nodes, b).adj[a] = w
              /\ \E k \in 1..Len(g.edges) :
                   /\ {g.edges[k].from, g.edges[k].to} = {a, b}
                   /\ g.edges[k].weight = w

C5_Witness ==
  /\ ret.fn = "loadLayer"
  /\ \E i \in 1..Len(trailGraph[1].nodes) :
       /\ Cardinality(DOMAIN trailGraph[1].nodes[i].adj) = 2
       /\ \E b \in DOMAIN trailGraph[1].nodes[i].adj :
            trailGraph[1].nodes[i].adj[b] > 0

\* C6: findNearestNode returns null exactly when there is no graph or the
\* graph has no node; otherwise the node it returns is at least as near as
\* every other node and is the first, in insertion order, of the nearest.
C6_NearestNode ==
  Returned("findNearestNode")
  => /\ ret.value = None <=> (trailGraph = None \/ Len(trailGraph[1].nodes) = 0)
     /\ ret.value # None =>
          LET nodes == trailGraph[1].nodes
              d(i) == haversine(ret.latlng, nodes[i].latlng)
          IN  \E i \in 1..Len(nodes) :
                /\ ret.value[1] = nodes[i]
                /\ \A j \in 1..Len(nodes) : d(i) <= d(j)
                /\ \A j \in 1..(i - 1) : d(j) > d(i)

C6_Witness ==
  /\ Returned("findNearestNode")
  /\ ret.value # None
  /\ \E j \in 1..Len(trailGraph[1].nodes) :
       /\ trailGraph[1].nodes[j].id # ret.value[1].id
       /\ trailGraph[1].nodes[j].latlng # ret.value[1].latlng
       /\ haversine(ret.latlng, trailGraph[1].nodes[j].latlng)
            = haversine(ret.latlng, ret.value[1].latlng)

\* C17: buildTrailGraph given a line geometry with fewer than 2 coordinates
\* raises an error and returns no graph.
C17_ShortLineRaises ==
  (/\ ret.fn = "loadLayer"
   /\ \E i \in 1..Len(LineCounts(ret.features)) : LineCounts(ret.features)[i] < 2)
  => /\ Has(ret, "error")
     /\ trailGraph = None

\* C20: dijkstra never returns a path of length 1: when the walk back from the
\* target yields only the target, the result is null, and every non-null
\* result has at least 2 nodes.
C20_NoSingletonPath ==
  (Returned("dijkstra") /\ Has(ret, "path"))
  => /\ Len(ret.path) <= 1 => ret.value = None
     /\ ret.value # None => Len(ret.value[1]) >= 2

C20_Witness ==
  /\ Returned("dijkstra")
  /\ Has(ret, "path")
  /\ ret.path = <<ret.endId>>
  /\ ret.startId = ret.endId
  /\ ret.value = None

(***************************************************************************)
(* Claims about the route scorer (checked under SpecScore)                 *)
(***************************************************************************)
Dimensions == {"weather", "wildlife", "facility", "path", "personal"}
WeightNames == {"environment", "wildlife", "facility", "path", "personal"}

\* C7: for every valid route, weather reading and combination of the four
\* preference flags, calculateScore(...).total lies in [0,1].
C7_TotalInUnitInterval ==
  scoreResult # None => scoreResult[1].total \in 0..100

\* a high total under a negative path weight
C7_Witness ==
  /\ scoreResult # None
  /\ scoreResult[1].weights.path < 0
  /\ scoreResult[1].total >= 90
  /\ Flag(inPreferences[1], "weatherSensitive")

\* the weighted sum of the returned breakdown under the returned weights,
\* rounded to hundredths
BreakdownTotal(result) ==
  LET sum ==   result.breakdown.weather * result.weights.environment
             + result.breakdown.wildlife * result.weights.wildlife
             + result.breakdown.facility * result.weights.facility
             + result.breakdown.path * result.weights.path
             + result.breakdown.personal * result.weights.personal
  IN  (2 * sum + 100) \div 200

\* C8: total = round2(sum over the dimensions of breakdown[d] * weights[d]).
C8_TotalOfBreakdown ==
  scoreResult # None => scoreResult[1].total = BreakdownTotal(scoreResult[1])

\* C8, amended: total is the weighted sum of the five unrounded sub-scores
\* under the returned weights, rounded to 2 decimals; the breakdown holds the
\* sub-scores rounded to 2 decimals, so total is within 0.01 of the rounded
\* weighted sum of the breakdown.
C8_TotalOfSubScores ==
  scoreResult # None
  => LET r == scoreResult[1]
         sub == scoreLocals[1]
         sum ==   sub.weather * r.weights.environment
                + sub.wildlife * r.weights.wildlife
                + sub.facility * r.weights.facility
                + sub.path * r.weights.path
                + sub.personal * r.weights.personal
     IN  /\ 2 * ONE * r.total <= 2 * sum + ONE
         /\ 2 * sum + ONE < 2 * ONE * (r.total + 1)
         /\ \A d \in Dimensions :
              /\ 2 * (ONE \div 100) * r.breakdown[d] <= 2 * sub[d] + (ONE \div 100)
              /\ 2 * sub[d] + (ONE \div 100) < 2 * (ONE \div 100) * (r.breakdown[d] + 1)
         /\ Abs(r.total - BreakdownTotal(r)) <= 1

C8_Witness ==
  /\ scoreResult # None
  /\ scoreResult[1].total # BreakdownTotal(scoreResult[1])
  /\ \E d \in Dimensions : Pct(scoreResult[1].breakdown[d]) # scoreLocals[1][d]

\* C9: every weight adjustWeights returns lies in [0,1], for each of the 16
\* combinations of the four preference flags.
C9_WeightsInUnitInterval ==
  scoreResult # None
  => \A name \in WeightNames : scoreResult[1].weights[name] \in 0..100

\* C10: each of the five sub-scores reported in the breakdown lies in [0,1].
C10_BreakdownInUnitInterval ==
  scoreResult # None
  => \A d \in Dimensions : scoreResult[1].breakdown[d] \in 0..100

\* every dimension reaches 1, and low scores occur too
C10_Witness ==
  /\ scoreResult # None
  /\ scoreResult[1].breakdown.path = 100
  /\ scoreResult[1].breakdown.wildlife = 100
  /\ scoreResult[1].breakdown.facility = 100
  /\ scoreResult[1].breakdown.personal = 100
  /\ scoreResult[1].breakdown.weather < 10

\* the eleven reasons in the order generateReasons checks them, each with the
\* sub-score dimension or the preference bonus it belongs to
ReasonOrder ==
  << "weather-good", "weather-poor", "wildlife-high", "wildlife-some",
     "facility-good", "facility-poor", "path-good", "path-hard",
     "personal-match", "wildlife-lover", "weather-friendly" >>

ReasonDimension ==
  [r \in SeqToSet(ReasonOrder) |->
     CASE r \in {"weather-good", "weather-poor"} -> "weather"
       [] r \in {"wildlife-high", "wildlife-some"} -> "wildlife"
       [] r \in {"facility-good", "facility-poor"} -> "facility"
       [] r \in {"path-good", "path-hard"} -> "path"
       [] r = "personal-match" -> "personal"
       [] r = "wildlife-lover" -> "prioritizeWildlife"
       [] r = "weather-friendly" -> "weatherSensitive"]

\* the condition under which a reason applies to the sub-scores sub
ReasonHolds(r, sub, preferences) ==
  CASE r = "weather-good" -> 10 * sub.weather > 8 * ONE
    [] r = "weather-poor" -> 10 * sub.weather < 4 * ONE
    [] r = "wildlife-high" -> 10 * sub.wildlife > 7 * ONE
    [] r = "wildlife-some" -> 10 * sub.wildlife > 5 * ONE /\ 10 * sub.wildlife <= 7 * ONE
    [] r = "facility-good" -> 10 * sub.facility > 8 * ONE
    [] r = "facility-poor" -> 10 * sub.facility < 4 * ONE
    [] r = "path-good" -> 10 * sub.path > 8 * ONE
    [] r = "path-hard" -> 10 * sub.path < 5 * ONE
    [] r = "personal-match" -> 10 * sub.personal > 7 * ONE
    [] r = "wildlife-lover" ->
         /\ "prioritizeWildlife" \in DOMAIN preferences
         /\ preferences.prioritizeWildlife
         /\ 10 * sub.wildlife > 6 * ONE
    [] r = "weather-friendly" ->
         /\ "weatherSensitive" \in DOMAIN preferences
         /\ preferences.weatherSensitive
         /\ 10 * sub.weather > 7 * ONE

HoldingReasons(sub, preferences) ==
  SelectSeq(ReasonOrder, LAMBDA r : ReasonHolds(r, sub, preferences))

\* C19: generateReasons returns at most 3 reasons: the first three (or all,
\* if fewer) of the reasons whose conditions hold, in the check order weather,
\* wildlife, facility, path, personal, prioritizeWildlife bonus,
\* weatherSensitive bonus, with at most one reason for each dimension.
C19_FirstThreeReasons ==
  scoreResult # None
  => LET reasons == scoreResult[1].reasons
         holding == HoldingReasons(scoreLocals[1], inPreferences[1])
     IN  /\ Len(reasons) <= 3
         /\ Len(reasons) = IF Len(holding) < 3 THEN Len(holding) ELSE 3
         /\ \A i \in 1..Len(reasons) : reasons[i] = holding[i]
         /\ \A i, j \in 1..Len(holding) :
              ReasonDimension[holding[i]] = ReasonDimension[holding[j]] => i = j

\* more than three reasons hold, a preference bonus among those cut off
C19_Witness ==
  /\ scoreResult # None
  /\ Len(scoreResult[1].reasons) = 3
  /\ Len(HoldingReasons(scoreLocals[1], inPreferences[1])) >= 5
  /\ "weather-friendly" \in SeqToSet(HoldingReasons(scoreLocals[1], inPreferences[1]))
  /\ "weather-friendly" \notin SeqToSet(scoreResult[1].reasons)

(***************************************************************************)
(* Claims about recommendRoutes (checked under SpecRecommend)              *)
(***************************************************************************)
Recommended == ret.fn = "recommendRoutes" /\ Has(ret, "value")

\* route satisfies every constraint that filters holds
PassesFilters(route, filters) ==
  /\ "maxDistance" \in DOMAIN filters => route.distance <= filters.maxDistance
  /\ "minDistance" \in DOMAIN filters => route.distance >= filters.minDistance
  /\ "maxDuration" \in DOMAIN filters => route.estimatedTime <= filters.maxDuration
  /\ "difficulty" \in DOMAIN filters => route.difficulty = filters.difficulty
  /\ ("accessible" \in DOMAIN filters /\ filters.accessible)
       => ("accessible" \in DOMAIN route /\ route.accessible)

\* relative distance difference below 0.20 and theme overlap above 0.60
Similar(r1, r2) ==
  LET t1 == IF "themes" \in DOMAIN r1 THEN SeqToSet(r1.themes) ELSE {}
      t2 == IF "themes" \in DOMAIN r2 THEN SeqToSet(r2.themes) ELSE {}
      larger == IF r1.distance > r2.distance THEN r1.distance ELSE r2.distance
      most == IF Cardinality(t1) > Cardinality(t2) THEN Cardinality(t1)
              ELSE Cardinality(t2)
  IN  /\ 100 * Abs(r1.distance - r2.distance) < 20 * larger
      /\ 100 * Cardinality(t1 \cap t2) > 60 * (IF most > 1 THEN most ELSE 1)

C13_ReturnsMinTwoN ==
  Recommended
  => LET n == Cardinality({i \in 1..Len(ret.allRoutes) :
                             PassesFilters(ret.allRoutes[i], ret.userFilters)})
     IN  /\ Len(ret.value) = IF n < 2 THEN n ELSE 2
         /\ Len(ret.value) <= 2
         /\ ret.value = <<>> <=> n = 0
         /\ \A i \in 1..Len(ret.value) :
              \E k \in 1..Len(ret.allRoutes) :
                /\ ret.allRoutes[k].id = ret.value[i].id
                /\ PassesFilters(ret.allRoutes[k], ret.userFilters)
         /\ Len(ret.value) = 2 => ret.value[1].id # ret.value[2].id

\* three routes are eligible, one is rejected, two are returned
C13_Witness ==
  /\ Recommended
  /\ Len(ret.value) = 2
  /\ Len(ret.eligibleRoutes) = 3
  /\ Len(ret.allRoutes) = 4

\* C14: when the two top-ranked routes are similar and some route ranked third
\* or lower is not similar to the top-ranked one, the result is the top-ranked
\* route with the first such route in rank order, a pair that is not similar;
\* when there is no such route the similar top two are returned unchanged.
C14_Diversification ==
  (/\ Recommended
   /\ Len(ret.sortedRoutes) >= 2
   /\ Similar(ret.sortedRoutes[1], ret.sortedRoutes[2]))
  => LET ranked == ret.sortedRoutes
         different == {i \in 3..Len(ranked) : ~Similar(ranked[1], ranked[i])}
     IN  IF different = {}
         THEN ret.value = <<ranked[1], ranked[2]>>
         ELSE /\ \E k \in different :
                   /\ \A j \in different : k <= j
                   /\ ret.value = <<ranked[1], ranked[k]>>
              /\ ~Similar(ret.value[1], ret.value[2])

\* the third-ranked route is similar to the first too: the fourth is taken
C14_Witness ==
  /\ Recommended
  /\ Len(ret.sortedRoutes) = 4
  /\ Similar(ret.sortedRoutes[1], ret.sortedRoutes[2])
  /\ Similar(ret.sortedRoutes[1], ret.sortedRoutes[3])
  /\ ret.value = <<ret.sortedRoutes[1], ret.sortedRoutes[4]>>

\* C15: in the ranked list a route whose total score exceeds another route's
\* by 0.10 or more is placed before it, for any number of eligible routes.
C15_RankedByScore ==
  Recommended
  => \A i, j \in 1..Len(ret.sortedRoutes) :
       ret.sortedRoutes[i].score >= ret.sortedRoutes[j].score + 10 => i < j

\* C16: with a user location and an eligible route that has no start point,
\* recommendRoutes returns normally and gives that route the neutral distance
\* score 0.5.
C16_MissingStartPoint ==
  (/\ ret.fn = "recommendRoutes"
   /\ ret.userLocation # None
   /\ \E i \in 1..Len(ret.eligibleRoutes) :
        "startPoint" \notin DOMAIN ret.eligibleRoutes[i])
  => /\ Has(ret, "value")
     /\ \A i \in 1..Len(ret.sortedRoutes) :
          "startPoint" \notin DOMAIN ret.sortedRoutes[i]
            => ret.sortedRoutes[i].distanceScore = 2500

DerivedFields ==
  {"score", "breakdown", "weights", "reasons", "distanceFromUser", "distanceScore"}

\* C18: recommendRoutes, and the calculateScore calls it makes, leave every
\* input route unchanged and the caller's array with the same elements in the
\* same order; scores, reasons and distance data are only on derived records.
C18_RoutesReadOnly ==
  ret.fn = "recommendRoutes"
  => /\ ret.callerRoutes = ret.allRoutes
     /\ \A i \in 1..Len(ret.callerRoutes) :
          DOMAIN ret.callerRoutes[i] \cap DerivedFields = {}
     /\ Has(ret, "value") =>
          \A i \in 1..Len(ret.sortedRoutes) :
            LET derived == ret.sortedRoutes[i] IN
            /\ DerivedFields \subseteq DOMAIN derived
            /\ \E k \in 1..Len(ret.allRoutes) :
                 ret.allRoutes[k] =
                   [f \in DOMAIN derived \ DerivedFields |-> derived[f]]

\* the ranking is not the order of the caller's array
C18_Witness ==
  /\ Recommended
  /\ Len(ret.value) = 2
  /\ Len(ret.sortedRoutes) = Len(ret.allRoutes)
  /\ \E i \in 1..Len(ret.sortedRoutes) : ret.sortedRoutes[i].id # ret.allRoutes[i].id
  /\ ret.callerRoutes = ret.allRoutes

(***************************************************************************)
(* Claims about a scorer used repeatedly (checked under SpecCalls)         *)
(***************************************************************************)
\* C11: two calculateScore calls on the same scorer with identical route,
\* preferences and context (time and season supplied) give identical results,
\* whatever calculateScore or recommendRoutes calls happened in between, and
\* no call changes the scorer's default weights.
C11_Idempotent ==
  /\ defaultWeights = DefaultWeights
  /\ \A i, j \in 1..Len(calls) :
       (/\ calls[i].fn = "calculateScore"
        /\ calls[j].fn = "calculateScore"
        /\ calls[i].route = calls[j].route
        /\ calls[i].preferences = calls[j].preferences
        /\ calls[i].context = calls[j].context
        /\ {"time", "season"} \subseteq DOMAIN calls[i].context)
       => calls[i].result = calls[j].result

\* the same call before and after a recommendRoutes call whose profile
\* shifts the weights
C11_Witness ==
  /\ Len(calls) = 3
  /\ calls[1].fn = "calculateScore"
  /\ calls[2].fn = "recommendRoutes"
  /\ calls[3] = calls[1]
  /\ {"time", "season"} \subseteq DOMAIN calls[1].context
  /\ calls[1].result.weights # DefaultWeights
  /\ ret.userProfile # <<>>

(***************************************************************************)
(* More claims about the trail graph (checked under SpecGraph and, for     *)
(* termination, SpecGraphFair)                                             *)
(***************************************************************************)
\* the input line, counted among the LineStrings, that node id was made from
LineOfNode(counts, id) ==
  CHOOSE k \in 1..Len(counts) :
    /\ SumSeq(SubSeq(counts, 1, k - 1)) <= id
    /\ id < SumSeq(SubSeq(counts, 1, k))

\* C21: two input lines that contain the same coordinate give two distinct
\* nodes with no edge between them; dijkstra returns a path only between two
\* nodes made from the same line and null for two nodes of different lines.
C21_LinesNotJoined ==
  trailGraph # None
  => LET g == trailGraph[1]
         counts == LineCounts(windowTrailFeatures[1])
         line(id) == LineOfNode(counts, id)
     IN  /\ \A i, j \in 1..Len(g.nodes) : g.nodes[i].id = g.nodes[j].id => i = j
         /\ \A a, b \in NodeIds(g) : line(a) # line(b) => ~Adjacent(g, a, b)
         /\ Returned("dijkstra") =>
              /\ ret.value # None => line(ret.startId) = line(ret.endId)
              /\ line(ret.startId) # line(ret.endId) => ret.value = None

\* two lines of two coordinates each that meet in one point
C21_Witness ==
  /\ Returned("dijkstra")
  /\ trailGraph # None
  /\ LineCounts(windowTrailFeatures[1]) = <<2, 2>>
  /\ ret.startId = 1
  /\ ret.endId = 2
  /\ MapGet(trailGraph[1].nodes, 1).latlng = MapGet(trailGraph[1].nodes, 2).latlng
  /\ ret.value = None

NoRepeat(path) == \A i, j \in 1..Len(path) : path[i] = path[j] => i = j

RECURSIVE dijkstraRun(_, _, _)
dijkstraRun(graph, st, endId) ==
  IF Len(st.unvisited) = 0 \/ st.broke THEN st
  ELSE dijkstraRun(graph, dijkstraIterate(graph, st, endId), endId)

dijkstraFresh(graph, startId, endId) ==
  pathOrNull(walkBack(dijkstraRun(graph, dijkstraInit(graph, startId), endId).previous,
                      endId, <<>>, Len(graph.nodes) + 1))

\* C23: no solver state is shared between calls and the graph is read-only
\* after construction: dijkstra and findNearestNode leave nodes, adjacency and
\* edges as buildTrailGraph made them, no solver state outlives a call, and
\* dijkstra(start, end) gives what a first call on the built graph gives,
\* whichever calls preceded it.
C23_GraphReadOnly ==
  /\ pc = "idle" => dj = None
  /\ trailGraph # None =>
       /\ trailGraph[1] = buildTrailGraph(windowTrailFeatures[1])
       /\ Returned("dijkstra") =>
            ret.value = dijkstraFresh(buildTrailGraph(windowTrailFeatures[1]),
                                      ret.startId, ret.endId)

\* a path found by a call that came after another dijkstra call
C23_Witness ==
  /\ Returned("dijkstra")
  /\ trailGraph # None
  /\ ret.after = "dijkstra"
  /\ ret.value # None
  /\ Len(ret.value[1]) >= 3

(***************************************************************************)
(* More claims about recommendRoutes (SpecRecommend) and the scorer        *)
(* (SpecScore)                                                             *)
(***************************************************************************)
\* C24: when two eligible routes have total scores less than 0.10 apart and a
\* user location is supplied, the route whose start point is closer to the
\* user is ranked before the one that is farther away.
C24_CloserRankedFirst ==
  (Recommended /\ ret.userLocation # None)
  => \A i, j \in 1..Len(ret.sortedRoutes) :
       (/\ Abs(ret.sortedRoutes[i].score - ret.sortedRoutes[j].score) < 10
        /\ ret.sortedRoutes[i].distanceFromUser[1]
             < ret.sortedRoutes[j].distanceFromUser[1])
       => i < j

\* C25: when precipitation > 0 and (sunny and temperature > 25) both hold,
\* the weather score before the wind and humidity adjustments is the
\* shade-based value (shadeCoverage * 0.9, * 0.7 above 30 degrees); the
\* shelter-based rain value has no influence on the result.
C25_SunBranchWins ==
  (/\ scoreResult # None
   /\ "weather" \in DOMAIN inContext[1]
   /\ "precipitation" \in DOMAIN inContext[1].weather
   /\ inContext[1].weather.precipitation > 0
   /\ "temperature" \in DOMAIN inContext[1].weather
   /\ inContext[1].weather.temperature > 25
   /\ ("sunny" \in DOMAIN inContext[1].weather => inContext[1].weather.sunny))
  => LET w == inContext[1].weather
         r == inRoute[1]
         shade == IF "shadeCoverage" \in DOMAIN r /\ r.shadeCoverage # 0
                  THEN r.shadeCoverage ELSE 40
         exposure == IF "exposureLevel" \in DOMAIN r /\ r.exposureLevel # 0
                     THEN r.exposureLevel ELSE 50
         shadeBased == IF w.temperature > 30
                       THEN Times(Times(Pct(shade), 9, 10), 7, 10)
                       ELSE Times(Pct(shade), 9, 10)
         afterWind == IF "windSpeed" \in DOMAIN w /\ w.windSpeed > 15
                      THEN Times(shadeBased, 1000 - 3 * exposure, 1000)
                      ELSE shadeBased
         afterHumidity == IF "humidity" \in DOMAIN w /\ w.humidity > 80
                          THEN Times(afterWind, 9, 10) ELSE afterWind
     IN  scoreLocals[1].weather = afterHumidity

\* rain and heat together, no wind or humidity adjustment, and a rain value
\* that differs from the result
C25_Witness ==
  /\ scoreResult # None
  /\ "weather" \in DOMAIN inContext[1]
  /\ inContext[1].weather = [precipitation |-> 1, temperature |-> 28]
  /\ {"shelterCoverage", "shadeCoverage"} \subseteq DOMAIN inRoute[1]
  /\ scoreLocals[1].weather = Times(Pct(inRoute[1].shadeCoverage), 9, 10)
  /\ scoreLocals[1].weather > weatherAfterRain(inRoute[1], 1, Pct(50))

\* what each preference flag adds to each weight, in hundredths
FlagDeltas ==
  [prioritizeWildlife |->
     [environment |-> -10, wildlife |-> 15, facility |-> -5, path |-> 0,
      personal |-> 0],
   weatherSensitive |->
     [environment |-> 20, wildlife |-> -10, facility |-> 0, path |-> -10,
      personal |-> 0],
   facilityDependent |->
     [environment |-> 0, wildlife |-> -5, facility |-> 15, path |-> -10,
      personal |-> 0],
   prioritizePathQuality |->
     [environment |-> -10, wildlife |-> 0, facility |-> 0, path |-> 15,
      personal |-> -5]]

RECURSIVE SumOver(_, _)
SumOver(set, f) ==
  IF set = {} THEN 0
  ELSE LET x == CHOOSE y \in set : TRUE IN f[x] + SumOver(set \ {x}, f)

\* C26: the five weights adjustWeights returns sum to exactly 1 for each of
\* the 16 combinations of the four flags; each flag's deltas sum to zero and
\* the flags' effects add up, whatever the order they are applied in.
C26_WeightsSumToOne ==
  scoreResult # None
  => LET weights == scoreResult[1].weights
         flags == {f \in PreferenceFlags :
                     f \in DOMAIN inPreferences[1] /\ inPreferences[1][f]}
     IN  /\ SumOver(WeightNames, weights) = 100
         /\ \A f \in PreferenceFlags : SumOver(WeightNames, FlagDeltas[f]) = 0
         /\ \A name \in WeightNames :
              weights[name]
                = DefaultWeights[name]
                  + SumOver(flags, [f \in PreferenceFlags |-> FlagDeltas[f][name]])

\* all four flags at once
C26_Witness ==
  /\ scoreResult # None
  /\ \A f \in PreferenceFlags :
       f \in DOMAIN inPreferences[1] /\ inPreferences[1][f]
  /\ scoreResult[1].weights # DefaultWeights

(***************************************************************************)
(* Route planning on the map: the picks of a start and an end point,       *)
(* planRoute, clearRoute, the setTimeout callbacks and the loading of the  *)
(* trail layer.  Every handler runs to completion; between two handlers    *)
(* any other handler, a due timer or the continuation of a load may run.   *)
(* Toasts and the pick hint are not part of the state.                     *)
(***************************************************************************)
\* the number of setTimeout callbacks pending at a time
MaxTimers == 2

\* points picked on the map, [lat, lng]
PickLats == {0, 3}
PickPoints == {<<lat, 0>> : lat \in PickLats}

\* trail data a load can bring: no trail, one trail of two points, two
\* trails of one point each
PlanDatasets ==
  {<<>>,
   <<LineString(<< <<0, 0>>, <<0, 2>> >>)>>,
   <<LineString(<< <<0, 0>> >>), LineString(<< <<0, 2>> >>)>>}

\* Math.round(a / b) for a >= 0, b > 0
RoundDiv(a, b) == (2 * a + b) \div (2 * b)

\* Math.round(distance / 1.4), lines 431 and 457
walkingTime(distance) == RoundDiv(10 * distance, 14)

\* L.marker(latlng, ...) and L.polyline(latlngs, ...): a layer is an object,
\* told from every other layer by its id
marker(id, latlng) == [id |-> id, type |-> "marker", latlng |-> latlng]
polyline(id, latlngs, color) ==
  [id |-> id, type |-> "polyline", latlngs |-> latlngs, color |-> color]

\* the id of a new layer: one that no layer on the map and no layer a global
\* refers to when the handler ends has
LayerIds(layers, refs) ==
  {l.id : l \in layers} \cup {r[1].id : r \in {x \in refs : x # None}}
NewLayerId(used) ==
  CHOOSE n \in 1..(Cardinality(used) + 1) :
    n \notin used /\ \A m \in 1..(n - 1) : m \in used

\* if (layer) map.removeLayer(layer)
removeLayer(layers, layer) ==
  IF layer = None THEN layers ELSE layers \ {layer[1]}

\* line 411 left out: the old route stays on the map
oldRouteKept(layers, line) == layers

\* line 411
oldRouteRemoved(layers, line) == removeLayer(layers, line)

\* the trailGraph that line 422 reads, had a pending load resumed inside
\* planRoute
graphReloaded(graph, inflight) ==
  IF inflight = None THEN graph ELSE Some(buildTrailGraph(inflight[1]))

\* the trailGraph that line 422 reads: planRoute does not await, so it is the
\* trailGraph that lines 414-419 read, whatever load is pending
graphAtResolve(graph, inflight) == graph

\* trailGraph.nodes.get(nodeId).latlng, None where get gives undefined
nodeLatLng(graph, nodeId) ==
  IF MapHas(graph.nodes, nodeId)
  THEN Some(MapGet(graph.nodes, nodeId).latlng)
  ELSE None

\* calculateRouteDistance(coords), lines 468-474
RECURSIVE calculateRouteDistance(_)
calculateRouteDistance(coords) ==
  IF Len(coords) <= 1 THEN 0
  ELSE haversine(coords[1], coords[2]) + calculateRouteDistance(Tail(coords))

\* planRoute always falling through to the straight line
planTrailNever(graph, resolveGraph, start, end) == None

\* lines 414-422: the path over the trails and the coordinates of its nodes,
\* or None where planRoute falls through to the straight line
planTrail(graph, resolveGraph, start, end) ==
  IF graph = None \/ Len(graph[1].nodes) = 0 THEN None
  ELSE LET startNode == findNearestNode(graph, start)
           endNode == findNearestNode(graph, end)
       IN  IF startNode = None \/ endNode = None THEN None
           ELSE LET path == dijkstraFresh(graph[1], startNode[1].id, endNode[1].id)
                IN  IF path = None \/ Len(path[1]) <= 1 THEN None
                    ELSE Some([startNode |-> startNode[1].id,
                               endNode |-> endNode[1].id,
                               path |-> path[1],
                               routeCoords |->
                                 [i \in 1..Len(path[1]) |->
                                    nodeLatLng(resolveGraph[1], path[1][i])]])

\* showRouteInfo(distance, time), lines 476-480: kilometres to one decimal
\* (in tenths) and minutes
routeInfoText(distance, time) ==
  [km10 |-> RoundDiv(distance, 100), minutes |-> RoundDiv(time, 60)]

\* updateRouteRecommendations(baseDistance, baseTime), lines 486-531: the
\* minutes of the scenic, the direct and the fitness option
recommendations(baseDistance, baseTime) ==
  [scenic |-> RoundDiv(12 * baseTime, 600),
   direct |-> RoundDiv(8 * baseTime, 600),
   fitness |-> RoundDiv(15 * baseTime, 600)]

\* setTimeout(callback, delay): cleared is not in the program, it records that
\* clearRoute ran while the callback was pending
planRouteTimer == [fn |-> "planRoute", delay |-> 500, cleared |-> FALSE]
routeDrawerTimer(distance, time) ==
  [fn |-> "openRouteDrawer", delay |-> 1000, cleared |-> FALSE,
   distance |-> distance, time |-> time]

\* A pending callback can run next unless one scheduled before it with the
\* same or a shorter delay is still pending.
Due(i) ==
  /\ i \in 1..Len(timers)
  /\ \A j \in 1..(i - 1) : timers[j].delay > timers[i].delay

RemoveAt(s, i) == SubSeq(s, 1, i - 1) \o SubSeq(s, i + 1, Len(s))

\* window.startPickStart(), lines 1018-1023
StartPickStart ==
  /\ pickMode' = Some("start")
  /\ routeDrawer' = [routeDrawer EXCEPT !.open = FALSE]
  /\ UNCHANGED <<startLatLng, endLatLng, startMarker, endMarker, routeLine,
                 mapLayers, timers, routeInfo, fetching>>
  /\ UNCHANGED graphVars
  /\ UNCHANGED scoreVars

\* window.startPickEnd(), lines 1025-1030
StartPickEnd ==
  /\ pickMode' = Some("end")
  /\ routeDrawer' = [routeDrawer EXCEPT !.open = FALSE]
  /\ UNCHANGED <<startLatLng, endLatLng, startMarker, endMarker, routeLine,
                 mapLayers, timers, routeInfo, fetching>>
  /\ UNCHANGED graphVars
  /\ UNCHANGED scoreVars

\* setStartPoint(latlng), lines 363-379
setStartPoint(latlng) ==
  LET removed == removeLayer(mapLayers, startMarker)
      new == marker(NewLayerId(LayerIds(removed, {endMarker, routeLine})), latlng)
  IN  /\ startLatLng' = Some(latlng)
      /\ startMarker' = Some(new)
      /\ mapLayers' = removed \cup {new}
      /\ pickMode' = Some("end")
      /\ UNCHANGED <<endLatLng, endMarker, routeLine, timers, routeDrawer,
                     routeInfo, fetching>>

\* setEndPoint(latlng), lines 381-402
setEndPoint(latlng) ==
  LET removed == removeLayer(mapLayers, endMarker)
      new == marker(NewLayerId(LayerIds(removed, {startMarker, routeLine})), latlng)
  IN  /\ Len(timers) < MaxTimers
      /\ endLatLng' = Some(latlng)
      /\ endMarker' = Some(new)
      /\ mapLayers' = removed \cup {new}
      /\ pickMode' = None
      /\ timers' = Append(timers, planRouteTimer)
      /\ UNCHANGED <<startLatLng, startMarker, routeLine, routeDrawer,
                     routeInfo, fetching>>

\* the click handler of the map, lines 32-43.  With no pick going on it
\* closes the open bottom drawers; the page, not this script, says whether
\* the route drawer is one of them.
MapClick(latlng) ==
  /\ IF pickMode = Some("start") THEN setStartPoint(latlng)
     ELSE IF pickMode = Some("end") THEN setEndPoint(latlng)
     ELSE /\ \E bottom \in BOOLEAN :
               routeDrawer' = [routeDrawer EXCEPT !.open = @ /\ ~bottom]
          /\ UNCHANGED <<pickMode, startLatLng, endLatLng, startMarker, endMarker,
                         routeLine, mapLayers, timers, routeInfo, fetching>>
  /\ UNCHANGED graphVars
  /\ UNCHANGED scoreVars

\* planRoute(), lines 404-466, run by the timer of setEndPoint; pending are
\* the timers left once that timer has fired
planRoute(pending) ==
  IF startLatLng = None \/ endLatLng = None
  THEN /\ timers' = pending
       /\ UNCHANGED <<routeLine, mapLayers, routeInfo>>
  ELSE
    LET layers == oldRouteRemoved(mapLayers, routeLine)
        id == NewLayerId(LayerIds(layers, {startMarker, endMarker}))
        trail == planTrail(trailGraph, graphAtResolve(trailGraph, fetching),
                           startLatLng[1], endLatLng[1])
    IN  IF trail # None /\ \E i \in 1..Len(trail[1].path) :
                             trail[1].routeCoords[i] = None
        THEN \* line 422 reads latlng of undefined
             /\ mapLayers' = layers
             /\ timers' = pending
             /\ UNCHANGED <<routeLine, routeInfo>>
        ELSE IF trail # None
        THEN LET routeCoords == [i \in 1..Len(trail[1].path) |->
                                   trail[1].routeCoords[i][1]]
                 line == polyline(id, routeCoords, "#0ea5e9")
                 distance == calculateRouteDistance(routeCoords)
                 time == walkingTime(distance)
             IN  /\ routeLine' = Some(line)
                 /\ mapLayers' = layers \cup {line}
                 /\ routeInfo' = Some(routeInfoText(distance, time))
                 /\ timers' = Append(pending, routeDrawerTimer(distance, time))
        ELSE LET directCoords == <<startLatLng[1], endLatLng[1]>>
                 line == polyline(id, directCoords, "#ef4444")
                 distance == haversine(startLatLng[1], endLatLng[1])
                 time == walkingTime(distance)
             IN  /\ routeLine' = Some(line)
                 /\ mapLayers' = layers \cup {line}
                 /\ routeInfo' = Some(routeInfoText(distance, time))
                 /\ timers' = Append(pending, routeDrawerTimer(distance, time))

\* the callback of lines 399-401
PlanRouteTimer(i) ==
  /\ Due(i)
  /\ timers[i].fn = "planRoute"
  /\ planRoute(RemoveAt(timers, i))
  /\ UNCHANGED <<pickMode, startLatLng, endLatLng, startMarker, endMarker,
                 routeDrawer, fetching>>
  /\ UNCHANGED graphVars
  /\ UNCHANGED scoreVars

\* the callback of lines 437-440 and 462-465: openDrawer('routeDrawer'),
\* lines 912-923, and updateRouteRecommendations(distance, time)
RouteDrawerTimer(i) ==
  /\ Due(i)
  /\ timers[i].fn = "openRouteDrawer"
  /\ routeDrawer' = [open |-> TRUE,
                     content |-> Some(recommendations(timers[i].distance,
                                                      timers[i].time))]
  /\ timers' = RemoveAt(timers, i)
  /\ UNCHANGED <<pickMode, startLatLng, endLatLng, startMarker, endMarker,
                 routeLine, mapLayers, routeInfo, fetching>>
  /\ UNCHANGED graphVars
  /\ UNCHANGED scoreVars

\* window.clearRoute(), lines 1032-1047
ClearRoute ==
  /\ mapLayers' = removeLayer(removeLayer(removeLayer(mapLayers, startMarker),
                                          endMarker), routeLine)
  /\ startLatLng' = None
  /\ endLatLng' = None
  /\ startMarker' = None
  /\ endMarker' = None
  /\ routeLine' = None
  /\ pickMode' = None
  /\ routeInfo' = None
  /\ timers' = [i \in 1..Len(timers) |-> [timers[i] EXCEPT !.cleared = TRUE]]
  /\ UNCHANGED <<routeDrawer, fetching>>
  /\ UNCHANGED graphVars
  /\ UNCHANGED scoreVars

\* the route button, line 994, and the overlay, line 997
RouteFabClick ==
  /\ routeDrawer' = [routeDrawer EXCEPT !.open = TRUE]
  /\ UNCHANGED <<pickMode, startLatLng, endLatLng, startMarker, endMarker,
                 routeLine, mapLayers, timers, routeInfo, fetching>>
  /\ UNCHANGED graphVars
  /\ UNCHANGED scoreVars

OverlayClick ==
  /\ routeDrawer' = [routeDrawer EXCEPT !.open = FALSE]
  /\ UNCHANGED <<pickMode, startLatLng, endLatLng, startMarker, endMarker,
                 routeLine, mapLayers, timers, routeInfo, fetching>>
  /\ UNCHANGED graphVars
  /\ UNCHANGED scoreVars

\* loadLayer('trails', ...) up to its first await, lines 188-195; features
\* are the features the response will bring through filterGeoJSONFeatures.
\* loadLayer takes the place of the layer of an earlier load (lines 206-208).
LoadLayerFetch(features) ==
  /\ fetching = None
  /\ fetching' = Some(features)
  /\ UNCHANGED <<trailGraph, windowTrailFeatures>>
  /\ UNCHANGED <<pickMode, startLatLng, endLatLng, startMarker, endMarker,
                 routeLine, mapLayers, timers, routeDrawer, routeInfo>>
  /\ UNCHANGED <<pc, dj, ret>>
  /\ UNCHANGED scoreVars

\* loadLayer after its awaits, lines 198-229
LoadLayerResume ==
  /\ fetching # None
  /\ windowTrailFeatures' = fetching
  /\ trailGraph' = Some(buildTrailGraph(fetching[1]))
  /\ fetching' = None
  /\ UNCHANGED <<pickMode, startLatLng, endLatLng, startMarker, endMarker,
                 routeLine, mapLayers, timers, routeDrawer, routeInfo>>
  /\ UNCHANGED <<pc, dj, ret>>
  /\ UNCHANGED scoreVars

\* loadLayer when the fetch fails, lines 196 and 231-236
LoadLayerFail ==
  /\ fetching # None
  /\ fetching' = None
  /\ UNCHANGED <<trailGraph, windowTrailFeatures>>
  /\ UNCHANGED <<pickMode, startLatLng, endLatLng, startMarker, endMarker,
                 routeLine, mapLayers, timers, routeDrawer, routeInfo>>
  /\ UNCHANGED <<pc, dj, ret>>
  /\ UNCHANGED scoreVars

NextPlan ==
  \/ StartPickStart
  \/ StartPickEnd
  \/ \E latlng \in PickPoints : MapClick(latlng)
  \/ \E i \in 1..Len(timers) : PlanRouteTimer(i)
  \/ \E i \in 1..Len(timers) : RouteDrawerTimer(i)
  \/ ClearRoute
  \/ RouteFabClick
  \/ OverlayClick
  \/ \E features \in PlanDatasets : LoadLayerFetch(features)
  \/ LoadLayerResume
  \/ LoadLayerFail

SpecPlan == InitGraph /\ [][NextPlan]_vars

(***************************************************************************)
(* Claims about route planning on the map (checked under SpecPlan)         *)
(***************************************************************************)
PolylinesOn(layers) == {l \in layers : l.type = "polyline"}

\* the paths of more than one node that the trails offer between the nodes
\* nearest to the two picked points
TrailPaths(graph, start, end) ==
  IF graph = None \/ Len(graph[1].nodes) = 0 THEN {}
  ELSE {p \in SimplePaths(graph[1], findNearestNode(graph, start)[1].id,
                          findNearestNode(graph, end)[1].id) : Len(p) > 1}

\* the coordinates of the nodes of path p in graph
PathLatLngs(graph, p) == [k \in 1..Len(p) |-> MapGet(graph.nodes, p[k]).latlng]

\* C27: planRoute with both a start and an end point set always ends with a
\* route displayed: the trail path when the graph is non-empty and dijkstra
\* finds a path between the two snapped nodes, and otherwise (no graph, empty
\* graph, unreachable target, both points snapping to the same node) the
\* straight line between the two picked points; with a point missing it draws
\* nothing and leaves the displayed route unchanged.
C27_PlanRouteDisplays ==
  [][\A i \in 1..Len(timers) :
       PlanRouteTimer(i) =>
         IF startLatLng # None /\ endLatLng # None
         THEN /\ routeLine' # None
              /\ routeLine'[1] \in mapLayers'
              /\ routeInfo' # None
              /\ LET paths == TrailPaths(trailGraph, startLatLng[1], endLatLng[1])
                 IN  IF paths # {}
                     THEN \E p \in paths :
                            /\ routeLine'[1].latlngs = PathLatLngs(trailGraph[1], p)
                            /\ \A q \in paths : PathWeight(trailGraph[1], p)
                                                  <= PathWeight(trailGraph[1], q)
                     ELSE routeLine'[1].latlngs = <<startLatLng[1], endLatLng[1]>>
         ELSE UNCHANGED <<routeLine, mapLayers, routeInfo>>]_vars

\* a route over the trails is displayed between two picked points that lie
\* off the trail's ends
C27_Witness ==
  /\ startLatLng # None /\ endLatLng # None
  /\ startLatLng[1] # endLatLng[1]
  /\ routeLine # None
  /\ routeLine[1] \in mapLayers
  /\ routeLine[1].color = "#0ea5e9"
  /\ routeLine[1].latlngs # <<startLatLng[1], endLatLng[1]>>
  /\ trailGraph # None
  /\ TrailPaths(trailGraph, startLatLng[1], endLatLng[1]) # {}

\* C28: under every interleaving of picks, clearRoute calls and delayed
\* planRoute callbacks at most one route line is on the map, and every route
\* line on the map is the one routeLine refers to.
C28_OneRouteLine ==
  /\ Cardinality(PolylinesOn(mapLayers)) <= 1
  /\ \A l \in PolylinesOn(mapLayers) : routeLine = Some(l)

\* planRoute ran twice within a second, for two different routes: the
\* drawer callbacks of both are pending and one line is on the map
C28_Witness ==
  /\ Len(timers) = 2
  /\ timers[1].fn = "openRouteDrawer" /\ timers[2].fn = "openRouteDrawer"
  /\ timers[1].distance # timers[2].distance
  /\ routeLine # None
  /\ PolylinesOn(mapLayers) = {routeLine[1]}

\* C29: after clearRoute nothing of the cleared route is presented again: no
\* callback scheduled before the clearRoute draws a route line or opens the
\* route recommendations, until a new start and a new end have been picked.
C29_NothingAfterClear ==
  [][\A i \in 1..Len(timers) :
       (/\ PlanRouteTimer(i) \/ RouteDrawerTimer(i)
        /\ timers[i].cleared
        /\ startLatLng = None \/ endLatLng = None)
       => UNCHANGED <<routeLine, mapLayers, routeDrawer>>]_vars

\* C30: route planning uses one graph: with trails loaded and both points set,
\* planRoute leaves trailGraph as it is, does not fail, and a trail route it
\* draws runs from the node nearest to the start to the node nearest to the
\* end of that trailGraph, through coordinates of nodes of that trailGraph,
\* whichever load is pending.
C30_OneGraph ==
  [][\A i \in 1..Len(timers) :
       (/\ PlanRouteTimer(i)
        /\ startLatLng # None /\ endLatLng # None
        /\ trailGraph # None)
       => /\ trailGraph' = trailGraph
          /\ routeLine' # None /\ routeLine'[1] \in mapLayers'
          /\ routeLine'[1].color = "#0ea5e9" =>
               \E p \in TrailPaths(trailGraph, startLatLng[1], endLatLng[1]) :
                 /\ SeqToSet(p) \subseteq NodeIds(trailGraph[1])
                 /\ routeLine'[1].latlngs = PathLatLngs(trailGraph[1], p)]_vars

\* a trail route is displayed while a load that brings other trails is pending
C30_Witness ==
  /\ fetching # None
  /\ trailGraph # None
  /\ buildTrailGraph(fetching[1]) # trailGraph[1]
  /\ routeLine # None
  /\ routeLine[1].color = "#0ea5e9"
  /\ routeLine[1] \in mapLayers
  /\ \E i \in 1..Len(timers) : timers[i].fn = "openRouteDrawer" /\ ~timers[i].cleared

====
